---- MODULE Spec2Model ----
(***************************************************************************)
(* Model of the enricher pipeline of salim/enricher: the queue consumer    *)
(* (queue_consumer.py), the normalizer (normalizer.py), the enricher       *)
(* (enricher.py), the rule-based brand extractor                           *)
(* (rule_based_brand_extractor.py) and the database manager (database.py)  *)
(* writing to the tables of create_tables.py.                              *)
(*                                                                         *)
(* Python values are tagged records [t |-> tag, v |-> payload]; a Python   *)
(* dict is a TLA+ function from its keys, a list a sequence.  Floats are   *)
(* held in thousandths (6.90 is 6900).  An operator that models a Python   *)
(* expression yields Raise(e) where the expression raises e.               *)
(***************************************************************************)
EXTENDS Integers, Sequences, FiniteSets, TLC

(***************************************************************************)
(* Python values                                                           *)
(***************************************************************************)
PyNone == [t |-> "none", v |-> ""]
PyStr(s) == [t |-> "str", v |-> s]
PyFloat(n) == [t |-> "float", v |-> n]
PyInt(n) == [t |-> "int", v |-> n]
PyBool(b) == [t |-> "bool", v |-> b]
PyDict(f) == [t |-> "dict", v |-> f]
PyList(s) == [t |-> "list", v |-> s]
EmptyDict == PyDict([k \in {} |-> PyNone])
EmptyList == PyList(<<>>)
Raise(e) == [t |-> "raise", v |-> e]
IsRaise(x) == "t" \in DOMAIN x /\ x.t = "raise"

\* Python truth value of x (bool(x), `if x`, `not x`).
Truthy(x) ==
    CASE x.t = "none" -> FALSE
      [] x.t = "str" -> x.v # ""
      [] x.t = "float" -> x.v # 0
      [] x.t = "int" -> x.v # 0
      [] x.t = "bool" -> x.v
      [] x.t = "dict" -> DOMAIN x.v # {}
      [] x.t = "list" -> Len(x.v) > 0
      [] OTHER -> TRUE

\* d.get(k, default): AttributeError when d is not a dict.
Get(d, k, default) ==
    IF IsRaise(d) THEN d
    ELSE IF d.t # "dict" THEN Raise("AttributeError")
    ELSE IF k \in DOMAIN d.v THEN d.v[k] ELSE default

\* The decimal literals of the modelled feeds, in thousandths.
FloatLiterals == [x \in {"6.90", "5.50", "6.905", "0"} |->
    CASE x = "6.90" -> 6900 [] x = "5.50" -> 5500 [] x = "6.905" -> 6905 [] x = "0" -> 0]

\* float(x): ValueError on an unparseable string, TypeError on None or a container.
float(x) ==
    CASE IsRaise(x) -> x
      [] x.t = "str" -> IF x.v \in DOMAIN FloatLiterals
                           THEN PyFloat(FloatLiterals[x.v]) ELSE Raise("ValueError")
      [] x.t = "float" -> x
      [] x.t = "int" -> PyFloat(x.v * 1000)
      [] x.t = "bool" -> PyFloat(IF x.v THEN 1000 ELSE 0)
      [] OTHER -> Raise("TypeError")

\* The integer literals of the modelled feeds.
IntLiterals == [x \in {"0", "1", "2"} |-> CASE x = "0" -> 0 [] x = "1" -> 1 [] x = "2" -> 2]

\* int(x): ValueError on an unparseable string, TypeError on None or a container.
int(x) ==
    CASE IsRaise(x) -> x
      [] x.t = "str" -> IF x.v \in DOMAIN IntLiterals
                           THEN PyInt(IntLiterals[x.v]) ELSE Raise("ValueError")
      [] x.t = "int" -> x
      [] x.t = "float" -> PyInt(x.v \div 1000)
      [] x.t = "bool" -> PyInt(IF x.v THEN 1 ELSE 0)
      [] OTHER -> Raise("TypeError")

bool(x) == IF IsRaise(x) THEN x ELSE PyBool(Truthy(x))

\* A wrong AsList: a bare object is dropped instead of wrapped.
AsList_dropping_bare(x) == IF x.t = "list" THEN x.v ELSE <<>>

\* `x if isinstance(x, list) else [x]`, as a sequence.
AsList(x) == IF x.t = "list" THEN x.v ELSE <<x>>

\* The first raised exception of a sequence of results, or the list of the results.
FirstRaise(s) ==
    IF \E i \in 1..Len(s) : IsRaise(s[i])
    THEN s[CHOOSE i \in 1..Len(s) : IsRaise(s[i]) /\ \A j \in 1..(i - 1) : ~IsRaise(s[j])]
    ELSE PyList(s)

\* A record's fields in evaluation order: the first that raised, or the record.
Build(order, rec) ==
    IF \E i \in 1..Len(order) : IsRaise(rec[order[i]])
    THEN rec[order[CHOOSE i \in 1..Len(order) :
                 IsRaise(rec[order[i]]) /\ \A j \in 1..(i - 1) : ~IsRaise(rec[order[j]])]]
    ELSE rec

(***************************************************************************)
(* normalizer.py                                                           *)
(***************************************************************************)
\* One entry of normalize_price_data's loop (normalizer.py 60-80).
normalized_item(item, data) ==
    IF item.t # "dict" THEN Raise("AttributeError")
    ELSE Build(<<"item_price", "item_quantity", "item_promotion_price">>,
      [item_code |-> Get(item, "ItemCode", PyNone),
       item_name |-> Get(item, "ItemName", PyNone),
       item_price |-> float(Get(item, "ItemPrice", PyInt(0))),
       item_unit |-> Get(item, "UnitQty", PyNone),
       item_unit_measure |-> Get(item, "UnitOfMeasure", PyNone),
       item_quantity |-> float(Get(item, "Quantity", PyInt(0))),
       item_manufacturer |-> Get(item, "ManufacturerName", PyNone),
       item_description |-> Get(item, "ManufacturerItemDescription", PyNone),
       item_category |-> Get(item, "ItemCategory", PyNone),
       item_subcategory |-> Get(item, "ItemSubCategory", PyNone),
       item_brand |-> Get(item, "ItemBrand", PyNone),
       item_promotion |-> bool(Get(item, "ItemPromotion", PyBool(FALSE))),
       item_promotion_price |-> float(Get(item, "ItemPromotionPrice", PyInt(0))),
       item_promotion_description |-> Get(item, "ItemPromotionDescription", PyNone),
       manufacture_country |-> Get(item, "ManufactureCountry", PyNone),
       last_update_date |-> Get(item, "PriceUpdateDate", PyNone),
       last_update_time |-> Get(data, "LastUpdateTime", PyNone)])

normalize_price_data(data, metadata) ==
    LET items_data == Get(Get(data, "Items", EmptyDict), "Item", EmptyList)
    IN  IF data.t # "dict" THEN Raise("AttributeError")
        ELSE IF IsRaise(items_data) THEN items_data
        ELSE LET rows == FirstRaise([i \in 1..Len(AsList(items_data)) |->
                             normalized_item(AsList(items_data)[i], data)])
             IN  IF IsRaise(rows) THEN rows
                 ELSE [type |-> "price_data",
                       chain_id |-> Get(data, "ChainId", PyNone),
                       store_id |-> Get(data, "StoreId",
                                        Get(metadata, "store_id", PyStr("unknown"))),
                       items |-> rows.v]

\* One entry of normalize_promo_data's inner loop (normalizer.py 117-123).
promo_item(item) ==
    IF item.t # "dict" THEN Raise("AttributeError")
    ELSE [item_code |-> Get(item, "ItemCode", PyNone),
          item_type |-> Get(item, "ItemType", PyNone),
          is_gift_item |-> bool(Get(item, "IsGiftItem", PyBool(FALSE)))]

\* One entry of normalize_promo_data's outer loop (normalizer.py 98-125).
normalized_promotion(promotion) ==
    IF promotion.t # "dict" THEN Raise("AttributeError")
    ELSE LET head == Build(<<"discounted_price", "min_qty">>,
               [promotion_id |-> Get(promotion, "PromotionId", PyNone),
                promotion_description |-> Get(promotion, "PromotionDescription", PyNone),
                promotion_update_date |-> Get(promotion, "PromotionUpdateDate", PyNone),
                promotion_start_date |-> Get(promotion, "PromotionStartDate", PyNone),
                promotion_end_date |-> Get(promotion, "PromotionEndDate", PyNone),
                discounted_price |-> float(Get(promotion, "DiscountedPrice", PyInt(0))),
                min_qty |-> float(Get(promotion, "MinQty", PyInt(0))),
                reward_type |-> Get(promotion, "RewardType", PyNone),
                allow_multiple_discounts |->
                    bool(Get(promotion, "AllowMultipleDiscounts", PyBool(FALSE)))])
             promo_items == Get(Get(promotion, "PromotionItems", EmptyDict), "Item", EmptyList)
         IN  IF IsRaise(head) THEN head
             ELSE IF IsRaise(promo_items) THEN promo_items
             ELSE LET rows == FirstRaise([i \in 1..Len(AsList(promo_items)) |->
                                  promo_item(AsList(promo_items)[i])])
                  IN  IF IsRaise(rows) THEN rows
                      ELSE [k \in DOMAIN head \cup {"items"} |->
                               IF k = "items" THEN rows.v ELSE head[k]]

normalize_promo_data(data, metadata) ==
    LET promotions_data == Get(Get(data, "Promotions", EmptyDict), "Promotion", EmptyList)
    IN  IF data.t # "dict" THEN Raise("AttributeError")
        ELSE IF IsRaise(promotions_data) THEN promotions_data
        ELSE LET rows == FirstRaise([i \in 1..Len(AsList(promotions_data)) |->
                             normalized_promotion(AsList(promotions_data)[i])])
             IN  IF IsRaise(rows) THEN rows
                 ELSE [type |-> "promo_data",
                       chain_id |-> Get(data, "ChainId", PyNone),
                       store_id |-> Get(data, "StoreId",
                                        Get(metadata, "store_id", PyStr("unknown"))),
                       promotions |-> rows.v]

\* One entry of normalize_store_data's inner loop (normalizer.py 148-162).
normalized_store(store, sub_chain, data) ==
    IF store.t # "dict" THEN Raise("AttributeError")
    ELSE Build(<<"store_type">>,
      [sub_chain_id |-> Get(sub_chain, "SubChainID", PyNone),
       sub_chain_name |-> Get(sub_chain, "SubChainName", PyNone),
       store_id |-> Get(store, "StoreID", PyNone),
       bikoret_no |-> Get(store, "BikoretNo", PyNone),
       store_type |-> int(Get(store, "StoreType", PyInt(0))),
       store_name |-> Get(store, "StoreName", PyNone),
       address |-> Get(store, "Address", PyNone),
       city |-> Get(store, "City", PyNone),
       zip_code |-> Get(store, "ZipCode", PyNone),
       last_update_date |-> Get(data, "LastUpdateDate", PyNone),
       last_update_time |-> Get(data, "LastUpdateTime", PyNone)])

\* The stores of one sub-chain (normalizer.py 143-162): a list, or the exception raised.
sub_chain_stores(sub_chain, data) ==
    LET stores_data == Get(Get(sub_chain, "Stores", EmptyDict), "Store", EmptyList)
    IN  IF IsRaise(stores_data) THEN stores_data
        ELSE FirstRaise([i \in 1..Len(AsList(stores_data)) |->
                 normalized_store(AsList(stores_data)[i], sub_chain, data)])

RECURSIVE Flatten(_)
\* The concatenation of a sequence of lists, up to the first raised exception.
Flatten(ls) ==
    IF Len(ls) = 0 THEN EmptyList
    ELSE IF IsRaise(Head(ls)) THEN Head(ls)
    ELSE LET rest == Flatten(Tail(ls))
         IN  IF IsRaise(rest) THEN rest ELSE PyList(Head(ls).v \o rest.v)

normalize_store_data(data, metadata) ==
    LET sub_chains == Get(Get(data, "SubChains", EmptyDict), "SubChain", EmptyList)
    IN  IF data.t # "dict" THEN Raise("AttributeError")
        ELSE IF IsRaise(sub_chains) THEN sub_chains
        ELSE LET rows == Flatten([i \in 1..Len(AsList(sub_chains)) |->
                             sub_chain_stores(AsList(sub_chains)[i], data)])
             IN  IF IsRaise(rows) THEN rows
                 ELSE [type |-> "store_data",
                       chain_id |-> Get(data, "ChainId", PyNone),
                       chain_name |-> Get(data, "ChainName", PyNone),
                       stores |-> rows.v]

normalize_generic_data(data, metadata) ==
    [type |-> "generic_data", data |-> data, metadata |-> metadata]

\* The keys and the strings of the modelled feeds that contain 'Stores'.
TextWithStores == {"Stores", "SubStores", "Mega Stores"}

RECURSIVE MentionsStores(_)
\* 'Stores' in str(x): the text of x's keys and strings contains 'Stores'.
MentionsStores(x) ==
    CASE x.t = "dict" -> \E k \in DOMAIN x.v : k \in TextWithStores \/ MentionsStores(x.v[k])
      [] x.t = "list" -> \E i \in 1..Len(x.v) : MentionsStores(x.v[i])
      [] x.t = "str" -> x.v \in TextWithStores
      [] OTHER -> FALSE

\* `list(x.keys()) if x else 'None'` of the log lines 21 and 27: raises on a
\* non-empty value that is no dict.
KeysLogged(x) == IF Truthy(x) /\ x.t # "dict" THEN Raise("AttributeError") ELSE x

normalize_message(message) ==
    LET data == Get(message, "data", EmptyDict)
        metadata == Get(message, "metadata", EmptyDict)
        file_type == Get(metadata, "file_type", PyStr(""))
        root_data == KeysLogged(Get(data, "Root", data))
        nested == IF IsRaise(root_data) THEN root_data
                  ELSE IF Truthy(root_data) /\ "root" \in DOMAIN root_data.v
                  THEN KeysLogged(root_data.v["root"]) ELSE root_data
    IN  IF IsRaise(file_type) THEN file_type
        ELSE IF IsRaise(nested) THEN nested
        ELSE IF file_type = PyStr("PriceFull") THEN normalize_price_data(nested, metadata)
        ELSE IF file_type = PyStr("PromoFull") THEN normalize_promo_data(nested, metadata)
        ELSE IF MentionsStores(data) THEN normalize_store_data(nested, metadata)
        ELSE normalize_generic_data(data, metadata)

(***************************************************************************)
(* create_tables.py: the columns of the two tables, and what PostgreSQL    *)
(* stores for a bound parameter.  A row is a record of its columns.        *)
(***************************************************************************)
\* The date texts of the modelled feeds and the DATE each is read as.
DateLiterals == [x \in {"2025-01-01", "2025-01-01 10:00", "2025-01-02"} |->
    CASE x = "2025-01-01" -> "2025-01-01"
      [] x = "2025-01-01 10:00" -> "2025-01-01"
      [] x = "2025-01-02" -> "2025-01-02"]

\* The time texts of the modelled feeds that PostgreSQL reads as a TIME.
TimeLiterals == {"10:00", "11:30"}

\* DECIMAL(10,2) holds fewer than 10^8 units.
NumericLimit == 100000000

\* DECIMAL(10,3) holds fewer than 10^7 units.
QuantityLimit == 10000000

\* A VARCHAR or TEXT column: NULL for None; psycopg2 cannot adapt a dict.
Varchar(x, not_null) ==
    CASE x.t = "none" -> IF not_null THEN Raise("NotNullViolation") ELSE PyNone
      [] x.t \in {"dict", "list"} -> Raise("ProgrammingError")
      [] OTHER -> x

\* A DECIMAL(10,2) column: rounded half away from zero to hundredths.
Decimal2(x) ==
    CASE x.t = "none" -> PyNone
      [] x.t \in {"float", "int"} ->
           LET n == IF x.t = "int" THEN x.v * 1000 ELSE x.v
               r == IF n >= 0 THEN ((n + 5) \div 10) * 10 ELSE -(((-n + 5) \div 10) * 10)
           IN  IF r \div 1000 >= NumericLimit \/ (-r) \div 1000 >= NumericLimit
               THEN Raise("NumericValueOutOfRange") ELSE PyFloat(r)
      [] OTHER -> Raise("DataError")

\* A DECIMAL(10,3) column: thousandths are kept.
Decimal3(x) ==
    CASE x.t = "none" -> PyNone
      [] x.t \in {"float", "int"} ->
           LET n == IF x.t = "int" THEN x.v * 1000 ELSE x.v
           IN  IF n \div 1000 >= QuantityLimit \/ (-n) \div 1000 >= QuantityLimit
               THEN Raise("NumericValueOutOfRange") ELSE PyFloat(n)
      [] OTHER -> Raise("DataError")

\* A BOOLEAN column.
Boolean(x) ==
    CASE x.t = "none" -> PyNone
      [] x.t = "bool" -> x
      [] OTHER -> Raise("DataError")

\* An INTEGER column.
Integer(x) ==
    CASE x.t = "none" -> PyNone
      [] x.t = "int" -> x
      [] x.t = "bool" -> PyInt(IF x.v THEN 1 ELSE 0)
      [] OTHER -> Raise("DataError")

\* A DATE column: the text is read as a date, its time of day dropped.
Date(x) ==
    CASE x.t = "none" -> PyNone
      [] x.t = "str" -> IF x.v \in DOMAIN DateLiterals
                           THEN [t |-> "date", v |-> DateLiterals[x.v]]
                           ELSE Raise("InvalidDatetimeFormat")
      [] OTHER -> Raise("DataError")

\* A TIME column.
Time(x) ==
    CASE x.t = "none" -> PyNone
      [] x.t = "str" -> IF x.v \in TimeLiterals
                           THEN [t |-> "time", v |-> x.v]
                           ELSE Raise("InvalidDatetimeFormat")
      [] OTHER -> Raise("DataError")

ItemColumns == <<"chain_id", "store_id", "item_code", "item_name", "item_price",
    "item_unit", "item_unit_measure", "item_quantity", "item_manufacturer",
    "item_category", "item_subcategory", "item_brand", "item_promotion",
    "item_promotion_price", "item_promotion_description", "last_update_date",
    "last_update_time">>

StoreColumns == <<"chain_id", "chain_name", "sub_chain_id", "sub_chain_name", "store_id",
    "bikoret_no", "store_type", "store_name", "address", "city", "zip_code",
    "last_update_date", "last_update_time">>

\* UNIQUE(chain_id, store_id, item_code, last_update_date) of items.
ItemKey == {"chain_id", "store_id", "item_code", "last_update_date"}

\* UNIQUE(chain_id, store_id) of stores.
StoreKey == {"chain_id", "store_id"}

\* The values the items INSERT binds (database.py 68-86), as the columns of
\* create_tables.py 56-78 store them; the error of the first column that rejects.
ItemValues(message, item) ==
    Build(ItemColumns,
      [chain_id |-> Varchar(message.chain_id, TRUE),
       store_id |-> Varchar(message.store_id, TRUE),
       item_code |-> Varchar(item.item_code, TRUE),
       item_name |-> Varchar(item.item_name, TRUE),
       item_price |-> Decimal2(item.item_price),
       item_unit |-> Varchar(item.item_unit, FALSE),
       item_unit_measure |-> Varchar(item.item_unit_measure, FALSE),
       item_quantity |-> Decimal3(item.item_quantity),
       item_manufacturer |-> Varchar(item.item_manufacturer, FALSE),
       item_category |-> Varchar(item.item_category, FALSE),
       item_subcategory |-> Varchar(item.item_subcategory, FALSE),
       item_brand |-> Varchar(item.item_brand, FALSE),
       item_promotion |-> Boolean(item.item_promotion),
       item_promotion_price |-> Decimal2(item.item_promotion_price),
       item_promotion_description |-> Varchar(item.item_promotion_description, FALSE),
       last_update_date |-> Date(item.last_update_date),
       last_update_time |-> Time(item.last_update_time)])

\* The values the stores INSERT binds (database.py 117-131), as the columns of
\* create_tables.py 23-41 store them.
StoreValues(message, store) ==
    Build(StoreColumns,
      [chain_id |-> Varchar(message.chain_id, TRUE),
       chain_name |-> Varchar(message.chain_name, TRUE),
       sub_chain_id |-> Varchar(store.sub_chain_id, FALSE),
       sub_chain_name |-> Varchar(store.sub_chain_name, FALSE),
       store_id |-> Varchar(store.store_id, TRUE),
       bikoret_no |-> Varchar(store.bikoret_no, FALSE),
       store_type |-> Integer(store.store_type),
       store_name |-> Varchar(store.store_name, TRUE),
       address |-> Varchar(store.address, FALSE),
       city |-> Varchar(store.city, FALSE),
       zip_code |-> Varchar(store.zip_code, FALSE),
       last_update_date |-> Date(store.last_update_date),
       last_update_time |-> Time(store.last_update_time)])

\* The columns DO UPDATE SET assigns from EXCLUDED (database.py 61-64).
ItemUpdateColumns == {"item_price", "item_brand", "item_promotion", "item_promotion_price"}

\* The columns DO UPDATE SET assigns from EXCLUDED (database.py 111-113).
StoreUpdateColumns == {"store_name", "address", "last_update_date"}

\* The rows of `table` the unique constraint on `key` finds in conflict with
\* `vals`: a NULL key column conflicts with nothing.
Conflicts(table, key, vals) ==
    {r \in table : \A c \in key : vals[c].t # "none" /\ r[c] = vals[c]}

\* A new row: the inserted values, the next id of the SERIAL column, and both
\* timestamps defaulted to CURRENT_TIMESTAMP.
NewRow(vals, id, now) ==
    [c \in DOMAIN vals \cup {"id", "created_at", "updated_at"} |->
        CASE c = "id" -> id
          [] c = "created_at" -> now
          [] c = "updated_at" -> now
          [] OTHER -> vals[c]]

\* A wrong DO UPDATE SET: every inserted column is assigned from EXCLUDED.
UpdatedRow_every_column(row, update_columns, vals, now) ==
    [c \in DOMAIN row |->
        CASE c \in DOMAIN vals -> vals[c]
          [] c = "updated_at" -> now
          [] OTHER -> row[c]]

\* The row after DO UPDATE SET: the update columns from EXCLUDED, updated_at now.
UpdatedRow(row, update_columns, vals, now) ==
    [c \in DOMAIN row |->
        CASE c \in update_columns -> vals[c]
          [] c = "updated_at" -> now
          [] OTHER -> row[c]]

\* INSERT ... ON CONFLICT (key) DO UPDATE SET ... on `table`.
Upsert(table, key, update_columns, vals, id, now) ==
    LET hit == Conflicts(table, key, vals)
    IN  IF hit = {} THEN table \cup {NewRow(vals, id, now)}
        ELSE (table \ hit) \cup {UpdatedRow(r, update_columns, vals, now) : r \in hit}

(***************************************************************************)
(* database.py.  The database is the record                                *)
(*   [items, stores: the committed tables,                                 *)
(*    tx_items, tx_stores: the tables as the connection's open transaction *)
(*        sees them (the committed tables when it has written nothing),    *)
(*    items_id_seq, stores_id_seq: the sequences of the SERIAL columns,    *)
(*    connection: "open", "broken" (found lost by a statement) or          *)
(*        "closed"].                                                       *)
(* `lost` is the number of the statement at which the connection is lost   *)
(* (the commit counts as the statement after the last write), 0 for never. *)
(***************************************************************************)
RECURSIVE Execute(_, _, _, _, _, _, _, _)
\* cursor.execute(upsert_query, ...) for vals[i], vals[i+1], ... until one raises:
\* the table written, the sequence value reached, the statements executed and
\* the exception raised ("none" when every statement succeeded).
Execute(table, key, update_columns, vals, i, id, now, lost) ==
    IF i > Len(vals) THEN [table |-> table, id |-> id, done |-> i - 1, error |-> "none"]
    ELSE IF lost = i THEN [table |-> table, id |-> id, done |-> i, error |-> "OperationalError"]
    ELSE IF IsRaise(vals[i])
    THEN [table |-> table, done |-> i, error |-> vals[i].v,
          id |-> IF vals[i].v = "NotNullViolation" THEN id + 1 ELSE id]
    ELSE Execute(Upsert(table, key, update_columns, vals[i], id + 1, now),
                 key, update_columns, vals, i + 1, id + 1, now, lost)

\* The `except` of save_price_data and save_store_data (database.py 91-94, 136-139):
\* connection.rollback(), which itself raises on a lost connection, whose
\* transaction the server discards.
Rollback(db, lost) ==
    [db EXCEPT !.tx_items = db.items, !.tx_stores = db.stores,
               !.connection = IF lost # 0 THEN "broken" ELSE @]

\* connection.commit() (database.py 88, 133): the transaction's tables become
\* the committed ones.
Commit(db) == [db EXCEPT !.items = db.tx_items, !.stores = db.tx_stores]

\* save_price_data: the database after it, its return value, and the calls made
\* on the connection.
save_price_data(db, message, now, lost) ==
    LET vals == [i \in 1..Len(message.items) |-> ItemValues(message, message.items[i])]
        run == Execute(db.tx_items, ItemKey, ItemUpdateColumns, vals, 1,
                       db.items_id_seq, now, lost)
        written == [db EXCEPT !.tx_items = run.table, !.items_id_seq = run.id]
        calls == [i \in 1..run.done |-> "execute"]
    IN  IF run.error = "none" /\ lost # Len(vals) + 1
        THEN [db |-> Commit(written), result |-> TRUE, calls |-> calls \o <<"commit">>]
        ELSE [db |-> Rollback(written, lost), result |-> FALSE,
              calls |-> calls \o (IF run.error = "none" THEN <<"commit">> ELSE <<>>)
                              \o <<"rollback">>]

\* save_store_data, likewise.
save_store_data(db, message, now, lost) ==
    LET vals == [i \in 1..Len(message.stores) |-> StoreValues(message, message.stores[i])]
        run == Execute(db.tx_stores, StoreKey, StoreUpdateColumns, vals, 1,
                       db.stores_id_seq, now, lost)
        written == [db EXCEPT !.tx_stores = run.table, !.stores_id_seq = run.id]
        calls == [i \in 1..run.done |-> "execute"]
    IN  IF run.error = "none" /\ lost # Len(vals) + 1
        THEN [db |-> Commit(written), result |-> TRUE, calls |-> calls \o <<"commit">>]
        ELSE [db |-> Rollback(written, lost), result |-> FALSE,
              calls |-> calls \o (IF run.error = "none" THEN <<"commit">> ELSE <<>>)
                              \o <<"rollback">>]

\* save_to_database: connection.cursor() (line 27, before the type is looked
\* at) raises on a connection that was closed or found broken, and every
\* exception is turned into False.
save_to_database(db, enriched_message, now, lost) ==
    IF db.connection \in {"closed", "broken"}
    THEN [db |-> db, result |-> FALSE, calls |-> <<>>]
    ELSE IF enriched_message.type = "price_data"
    THEN save_price_data(db, enriched_message, now, lost)
    ELSE IF enriched_message.type = "store_data"
    THEN save_store_data(db, enriched_message, now, lost)
    ELSE [db |-> db, result |-> TRUE, calls |-> <<>>]

\* DatabaseManager.close.
close(db) == [db EXCEPT !.connection = "closed", !.tx_items = db.items, !.tx_stores = db.stores]

(***************************************************************************)
(* enricher.py                                                             *)
(***************************************************************************)
\* d[k] = x on a dict held as a record.
Set(d, k, x) == [c \in DOMAIN d \cup {k} |-> IF c = k THEN x ELSE d[c]]

\* d.get(k) of a dict held as a record.
Field(d, k) == IF k \in DOMAIN d THEN d[k] ELSE PyNone

\* datetime.now().isoformat() at time `now`.
Timestamp(now) == [t |-> "datetime", v |-> now]

\* `if not message.get('processed_at'): message['processed_at'] = ...`
Stamped(message, now) ==
    IF Truthy(Field(message, "processed_at")) THEN message
    ELSE Set(message, "processed_at", Timestamp(now))

\* Items processed in test mode (enricher.py 44).
max_items == 20

\* The guesses the brand extractor of the enricher (MLBrandExtractor) may return:
\* a brand with a confidence, or no brand.
BrandGuesses ==
    {[brand |-> PyStr("Tnuva"), confidence |-> PyFloat(900),
      source_field |-> PyStr("item_name"), extraction_method |-> PyStr("ml")],
     [brand |-> PyNone, confidence |-> PyFloat(0),
      source_field |-> PyNone, extraction_method |-> PyStr("ml_failed")]}

\* enrich_item_with_brand (rule_based_brand_extractor.py 133-141) given the guess.
enrich_item_with_brand(item_data, brand_info) ==
    Set(Set(Set(Set(item_data, "item_brand", brand_info.brand),
                "brand_confidence", brand_info.confidence),
            "brand_source", brand_info.source_field),
        "brand_extraction_method", brand_info.extraction_method)

\* The defaults of enrich_price_data's loop (enricher.py 56-59).
ItemDefaults(item) ==
    LET a == IF Truthy(Field(item, "item_promotion")) THEN item
             ELSE Set(item, "item_promotion", PyBool(FALSE))
    IN  IF Truthy(Field(a, "item_promotion_price")) THEN a
        ELSE Set(a, "item_promotion_price", PyFloat(0))

\* Whether x is a dict of the normalized message (a record of fields) and
\* not a tagged value such as None: x.get(...) raises AttributeError on those.
IsDict(x) == "t" \notin DOMAIN x

\* A wrong loop body: the extractor is asked about every item, branded or not.
EnrichItem_always_extracting(item, brand_info) ==
    IF ~IsDict(item) THEN Raise("AttributeError")
    ELSE IF IsRaise(brand_info) THEN brand_info
    ELSE enrich_item_with_brand(ItemDefaults(item), brand_info)

\* One pass of enrich_price_data's loop (enricher.py 52-70) with the
\* extractor's answer for this item: the item, or the exception raised.
EnrichItem(item, brand_info) ==
    IF ~IsDict(item) THEN Raise("AttributeError")
    ELSE IF Truthy(Field(ItemDefaults(item), "item_brand")) THEN ItemDefaults(item)
    ELSE IF IsRaise(brand_info) THEN brand_info
    ELSE enrich_item_with_brand(ItemDefaults(item), brand_info)

\* A loop over dicts that are changed in place: [raised, elements].  `out` is
\* what each pass gives and `entered` the element as the pass that raised left
\* it; the elements before it are changed and those after it are not.
InPlace(elements, out, entered) ==
    LET bad == {i \in 1..Len(out) : IsRaise(out[i])}
        k == IF bad = {} THEN Len(out) + 1 ELSE CHOOSE i \in bad : \A j \in bad : i <= j
    IN  [raised |-> bad # {},
         elements |-> [i \in 1..Len(elements) |->
                         IF i < k THEN out[i]
                         ELSE IF i = k THEN entered[i]
                         ELSE elements[i]]]

\* A wrong enrich_price_data: the item list is never cut, in test mode or not.
enrich_price_data_uncut(message, brand_infos, now, in_test_mode) ==
    LET m == Stamped(message, now)
        items == m.items
        items_to_process == items
        loop == InPlace(items_to_process,
                    [i \in 1..Len(items_to_process) |->
                        EnrichItem(items_to_process[i], brand_infos[i])],
                    [i \in 1..Len(items_to_process) |->
                        IF IsDict(items_to_process[i]) THEN ItemDefaults(items_to_process[i])
                        ELSE items_to_process[i]])
    IN  [raised |-> loop.raised, message |-> [m EXCEPT !.items = loop.elements]]

\* enrich_price_data: [raised, message].  An exception at item k leaves the
\* items before k enriched and item k with its defaults.
enrich_price_data(message, brand_infos, now, in_test_mode) ==
    LET m == Stamped(message, now)
        items == m.items
        items_to_process ==
            IF in_test_mode
            THEN (IF Len(items) > max_items THEN SubSeq(items, 1, max_items) ELSE items)
            ELSE items
        loop == InPlace(items_to_process,
                    [i \in 1..Len(items_to_process) |->
                        EnrichItem(items_to_process[i], brand_infos[i])],
                    [i \in 1..Len(items_to_process) |->
                        IF IsDict(items_to_process[i]) THEN ItemDefaults(items_to_process[i])
                        ELSE items_to_process[i]])
    IN  [raised |-> loop.raised, message |-> [m EXCEPT !.items = loop.elements]]

\* The defaults of enrich_promo_data's loop (enricher.py 81-85).
PromotionDefaults(promotion) ==
    IF ~IsDict(promotion) THEN Raise("AttributeError")
    ELSE LET a == IF Truthy(Field(promotion, "allow_multiple_discounts")) THEN promotion
                  ELSE Set(promotion, "allow_multiple_discounts", PyBool(FALSE))
         IN  IF Truthy(Field(a, "reward_type")) THEN a ELSE Set(a, "reward_type", PyStr("1"))

\* enrich_promo_data: [raised, message].
enrich_promo_data(message, now) ==
    LET loop == InPlace(message.promotions,
                    [i \in 1..Len(message.promotions) |->
                        PromotionDefaults(message.promotions[i])],
                    message.promotions)
    IN  [raised |-> loop.raised,
         message |-> [Stamped(message, now) EXCEPT !.promotions = loop.elements]]

\* The defaults of enrich_store_data's loop (enricher.py 96-100).
StoreDefaults(store) ==
    IF ~IsDict(store) THEN Raise("AttributeError")
    ELSE LET a == IF Truthy(Field(store, "store_type")) THEN store
                  ELSE Set(store, "store_type", PyInt(1))
         IN  IF Truthy(Field(a, "city")) THEN a ELSE Set(a, "city", PyStr("Unknown"))

\* enrich_store_data: [raised, message].
enrich_store_data(message, now) ==
    LET loop == InPlace(message.stores,
                    [i \in 1..Len(message.stores) |-> StoreDefaults(message.stores[i])],
                    message.stores)
    IN  [raised |-> loop.raised,
         message |-> [Stamped(message, now) EXCEPT !.stores = loop.elements]]

\* A wrong enrich_message: a record of no known type is stamped too, in the
\* metadata it carries.
enrich_dispatch_stamping_metadata(normalized_message, brand_infos, now, in_test_mode) ==
    CASE normalized_message.type = "price_data" ->
           enrich_price_data(normalized_message, brand_infos, now, in_test_mode)
      [] normalized_message.type = "promo_data" -> enrich_promo_data(normalized_message, now)
      [] normalized_message.type = "store_data" -> enrich_store_data(normalized_message, now)
      [] OTHER -> [raised |-> FALSE,
                   message |-> [normalized_message EXCEPT !.metadata =
                       PyDict(Set(@.v, "processed_at", Timestamp(now)))]]

\* The try block of enrich_message (enricher.py 20-27): [raised, message],
\* the message as the block left it.
enrich_dispatch(normalized_message, brand_infos, now, in_test_mode) ==
    CASE normalized_message.type = "price_data" ->
           enrich_price_data(normalized_message, brand_infos, now, in_test_mode)
      [] normalized_message.type = "promo_data" -> enrich_promo_data(normalized_message, now)
      [] normalized_message.type = "store_data" -> enrich_store_data(normalized_message, now)
      [] OTHER -> [raised |-> FALSE, message |-> normalized_message]

\* enrich_message: every exception is swallowed and normalized_message, the
\* object the try block was changing, returned.
enrich_message(normalized_message, brand_infos, now, in_test_mode) ==
    enrich_dispatch(normalized_message, brand_infos, now, in_test_mode).message

(***************************************************************************)
(* rule_based_brand_extractor.py.  Python strings are strings; a character *)
(* is a string of length one.                                              *)
(***************************************************************************)
\* The cased letters of the modelled texts: lower case and upper case.
LowerCase == <<"a", "b", "c", "d", "e", "f", "g", "h", "i", "j", "k", "l", "m", "n", "o",
               "p", "q", "r", "s", "t", "u", "v", "w", "x", "y", "z", "é">>
UpperCase == <<"A", "B", "C", "D", "E", "F", "G", "H", "I", "J", "K", "L", "M", "N", "O",
               "P", "Q", "R", "S", "T", "U", "V", "W", "X", "Y", "Z", "É">>

\* Where character c stands in alphabet a, 0 when it does not.
IndexIn(a, c) == IF \E i \in 1..Len(a) : a[i] = c THEN CHOOSE i \in 1..Len(a) : a[i] = c ELSE 0

\* c.lower() of one character.
LowerChar(c) == IF IndexIn(UpperCase, c) > 0 THEN LowerCase[IndexIn(UpperCase, c)] ELSE c

\* The characters \s matches and the characters neither \w nor \s matches.
Whitespace == {" ", "\t", "\n"}
Punctuation == {".", ",", "-", "'", "(", ")", "&", "/", "%", "!", "+", ":", ";", "*", "#", "?"}
IsWordChar(c) == c \notin Whitespace \cup Punctuation

RECURSIVE lower(_)
\* s.lower()
lower(s) == IF s = "" THEN "" ELSE LowerChar(SubSeq(s, 1, 1)) \o lower(SubSeq(s, 2, Len(s)))

RECURSIVE strip(_)
\* s.strip()
strip(s) ==
    IF s = "" THEN ""
    ELSE IF SubSeq(s, 1, 1) \in Whitespace THEN strip(SubSeq(s, 2, Len(s)))
    ELSE IF SubSeq(s, Len(s), Len(s)) \in Whitespace THEN strip(SubSeq(s, 1, Len(s) - 1))
    ELSE s

\* pattern in text
In(pattern, text) ==
    \E i \in 1..(Len(text) - Len(pattern) + 1) : SubSeq(text, i, i + Len(pattern) - 1) = pattern

RECURSIVE title(_, _)
\* s.title(): a cased character is upper case after an uncased one (or at the
\* start) and lower case after a cased one.
title(s, after_cased) ==
    IF s = "" THEN ""
    ELSE LET c == SubSeq(s, 1, 1)
             \* c.upper(), and whether c is a cased character
             UpperChar == IF IndexIn(LowerCase, c) > 0
                          THEN UpperCase[IndexIn(LowerCase, c)] ELSE c
             IsCased == IndexIn(LowerCase, c) > 0 \/ IndexIn(UpperCase, c) > 0
         IN  (IF after_cased THEN LowerChar(c) ELSE UpperChar)
             \o title(SubSeq(s, 2, Len(s)), IsCased)

RECURSIVE remove_punctuation(_)
\* re.sub(r'[^\w\s]', '', s)
remove_punctuation(s) ==
    IF s = "" THEN ""
    ELSE LET c == SubSeq(s, 1, 1)
         IN  (IF IsWordChar(c) \/ c \in Whitespace THEN c ELSE "")
             \o remove_punctuation(SubSeq(s, 2, Len(s)))

RECURSIVE findall_words(_, _)
\* re.findall(r'[\w]+', s): the maximal runs of word characters, `word` being
\* the run in hand.
findall_words(s, word) ==
    IF s = "" THEN (IF word = "" THEN <<>> ELSE <<word>>)
    ELSE LET c == SubSeq(s, 1, 1)
         IN  IF IsWordChar(c) THEN findall_words(SubSeq(s, 2, Len(s)), word \o c)
             ELSE (IF word = "" THEN <<>> ELSE <<word>>)
                  \o findall_words(SubSeq(s, 2, Len(s)), "")

\* self.hebrew_brands, in the order of the dict.
hebrew_brands ==
    <<[brand |-> "תנובה", patterns |-> <<"תנובה", "tnuva">>],
      [brand |-> "אסם", patterns |-> <<"אסם", "osem">>],
      [brand |-> "שטראוס", patterns |-> <<"שטראוס", "strauss">>],
      [brand |-> "עלית", patterns |-> <<"עלית", "elit">>],
      [brand |-> "טרה", patterns |-> <<"טרה", "tera">>],
      [brand |-> "יטבתה", patterns |-> <<"יטבתה">>],
      [brand |-> "גד", patterns |-> <<"גד", "gad">>],
      [brand |-> "תרה", patterns |-> <<"תרה">>],
      [brand |-> "שופרסל", patterns |-> <<"שופרסל", "shufersal">>],
      [brand |-> "קוקה קולה", patterns |-> <<"קוקה קולה", "coca cola", "coke">>],
      [brand |-> "פפסי", patterns |-> <<"פפסי", "pepsi">>],
      [brand |-> "נסטלה", patterns |-> <<"נסטלה", "nestle", "nestlé">>],
      [brand |-> "שוופס", patterns |-> <<"שוופס", "schweppes">>],
      [brand |-> "ספרייט", patterns |-> <<"ספרייט", "sprite">>],
      [brand |-> "פנטה", patterns |-> <<"פנטה", "fanta">>],
      [brand |-> "מילקי", patterns |-> <<"מילקי", "milky">>],
      [brand |-> "ביסלי", patterns |-> <<"ביסלי", "bissli">>],
      [brand |-> "במבה", patterns |-> <<"במבה", "bamba">>],
      [brand |-> "אפרסק", patterns |-> <<"אפרסק">>],
      [brand |-> "יפו", patterns |-> <<"יפו", "jaffa">>],
      [brand |-> "פריגת", patterns |-> <<"פריגת", "prigat">>],
      [brand |-> "רמי לוי", patterns |-> <<"רמי לוי", "rami levy">>],
      [brand |-> "מגה", patterns |-> <<"מגא", "mega">>],
      [brand |-> "יוניליוור", patterns |-> <<"יוניליוור", "unilever">>],
      [brand |-> "פרוקטר", patterns |-> <<"פרוקטר", "procter">>]>>

\* self.english_brands, in the order of the dict.
english_brands ==
    <<[brand |-> "Coca-Cola", patterns |-> <<"coca cola", "coke", "קוקה קולה">>],
      [brand |-> "Pepsi", patterns |-> <<"pepsi", "פפסי">>],
      [brand |-> "Nestle", patterns |-> <<"nestle", "nestlé", "נסטלה">>],
      [brand |-> "Nutella", patterns |-> <<"nutella", "נוטלה">>],
      [brand |-> "Kellogg", patterns |-> <<"kellogg", "קלוג">>],
      [brand |-> "Heinz", patterns |-> <<"heinz", "היינץ">>],
      [brand |-> "Pringles", patterns |-> <<"pringles", "פרינגלס">>],
      [brand |-> "Oreo", patterns |-> <<"oreo", "אוראו">>],
      [brand |-> "KitKat", patterns |-> <<"kitkat", "kit kat", "קיט קט">>],
      [brand |-> "Snickers", patterns |-> <<"snickers", "סניקרס">>],
      [brand |-> "Mars", patterns |-> <<"mars", "מארס">>],
      [brand |-> "Twix", patterns |-> <<"twix", "טוויקס">>],
      [brand |-> "Sprite", patterns |-> <<"sprite", "ספרייט">>],
      [brand |-> "Fanta", patterns |-> <<"fanta", "פנטה">>],
      [brand |-> "Red Bull", patterns |-> <<"red bull", "רד בול">>],
      [brand |-> "Monster", patterns |-> <<"monster", "מונסטר">>]>>

\* The sentinels of an unknown text (lines 68, 103) and the words that are no
\* brand (line 118).
UnknownTexts == {"לא ידוע", "unknown", ""}
UnitWords == {"ליטר", "גרם", "יחידה", "חבילה", "קופסה"}

\* A guess of the extractor.
BrandGuess(brand, confidence, source_field, extraction_method) ==
    [brand |-> brand, confidence |-> PyFloat(confidence), source_field |-> source_field,
     extraction_method |-> PyStr(extraction_method)]

\* The loops of lines 77-87 and 90-100 over one dictionary: the first brand, in
\* the order of the dict, one of whose patterns is in the combined text, with
\* the first such pattern; 0 when there is none.
FirstMatch(brands, combined_text) ==
    LET hit(i) == {j \in 1..Len(brands[i].patterns) :
                      In(lower(brands[i].patterns[j]), combined_text)}
        hits == {i \in 1..Len(brands) : hit(i) # {}}
        first == CHOOSE i \in hits : \A k \in hits : i <= k
    IN  IF hits = {} THEN [brand |-> 0, pattern |-> ""]
        ELSE [brand |-> first,
              pattern |-> lower(brands[first].patterns[
                              CHOOSE j \in hit(first) : \A k \in hit(first) : j <= k])]

\* A dictionary result (lines 80-87, 93-100).
DictionaryGuess(brand, pattern, item_name, manufacturer, extraction_method) ==
    BrandGuess(PyStr(brand),
               IF In(pattern, item_name) THEN 900 ELSE 700,
               IF In(pattern, item_name) THEN PyStr("item_name")
               ELSE IF In(pattern, manufacturer) THEN PyStr("manufacturer")
               ELSE PyStr("description"),
               extraction_method)

\* `a or b`
Or(a, b) == IF Truthy(a) THEN a ELSE b

\* (item_data.get(k1) or item_data.get(k2, '')).lower(): AttributeError when
\* the value is no string.
LowerText(item_data, k1, k2) ==
    LET x == Or(Field(item_data, k1), IF k2 \in DOMAIN item_data THEN item_data[k2] ELSE PyStr(""))
    IN  IF x.t = "str" THEN PyStr(lower(x.v)) ELSE Raise("AttributeError")

\* The manufacturer stage (lines 103-112): the brand, or "" when it yields none.
manufacturer_brand(manufacturer) ==
    IF manufacturer # "" /\ manufacturer \notin UnknownTexts
    THEN LET clean_manufacturer == strip(remove_punctuation(manufacturer))
         IN  IF Len(clean_manufacturer) > 2 THEN title(clean_manufacturer, FALSE) ELSE ""
    ELSE ""

\* The first-word stage (lines 115-124): the brand, or "" when it yields none.
first_word_brand(item_name) ==
    LET words == findall_words(item_name, "")
        good == {i \in 1..Len(words) : Len(words[i]) > 2 /\ words[i] \notin UnitWords}
    IN  IF item_name # "" /\ good # {}
        THEN title(words[CHOOSE i \in good : \A k \in good : i <= k], FALSE)
        ELSE ""

\* A wrong cascade: the manufacturer stage is tried before the dictionaries.
extract_brand_manufacturer_first(item_data) ==
    LET name == LowerText(item_data, "ItemName", "item_name")
        manu == LowerText(item_data, "ManufacturerName", "item_manufacturer")
        desc == LowerText(item_data, "ManufacturerItemDescription", "item_description")
    IN  IF IsRaise(name) THEN name
        ELSE IF IsRaise(manu) THEN manu
        ELSE IF IsRaise(desc) THEN desc
        ELSE
        LET item_name == name.v
            manufacturer == manu.v
            combined_text == strip(item_name \o " " \o manufacturer \o " " \o desc.v)
            hebrew == FirstMatch(hebrew_brands, combined_text)
            english == FirstMatch(english_brands, combined_text)
        IN  IF combined_text = "" \/ combined_text \in UnknownTexts
            THEN BrandGuess(PyNone, 0, PyNone, "rule_based_no_data")
            ELSE IF manufacturer_brand(manufacturer) # ""
            THEN BrandGuess(PyStr(manufacturer_brand(manufacturer)), 600,
                            PyStr("manufacturer"), "rule_based_manufacturer")
            ELSE IF hebrew.brand # 0
            THEN DictionaryGuess(hebrew_brands[hebrew.brand].brand, hebrew.pattern,
                                 item_name, manufacturer, "rule_based_hebrew")
            ELSE IF english.brand # 0
            THEN DictionaryGuess(english_brands[english.brand].brand, english.pattern,
                                 item_name, manufacturer, "rule_based_english")
            ELSE IF first_word_brand(item_name) # ""
            THEN BrandGuess(PyStr(first_word_brand(item_name)), 400,
                            PyStr("item_name"), "rule_based_first_word")
            ELSE BrandGuess(PyNone, 0, PyNone, "rule_based_failed")

\* A wrong cascade: the English dictionary is checked before the Hebrew one.
extract_brand_english_first(item_data) ==
    LET name == LowerText(item_data, "ItemName", "item_name")
        manu == LowerText(item_data, "ManufacturerName", "item_manufacturer")
        desc == LowerText(item_data, "ManufacturerItemDescription", "item_description")
    IN  IF IsRaise(name) THEN name
        ELSE IF IsRaise(manu) THEN manu
        ELSE IF IsRaise(desc) THEN desc
        ELSE
        LET item_name == name.v
            manufacturer == manu.v
            combined_text == strip(item_name \o " " \o manufacturer \o " " \o desc.v)
            hebrew == FirstMatch(hebrew_brands, combined_text)
            english == FirstMatch(english_brands, combined_text)
        IN  IF combined_text = "" \/ combined_text \in UnknownTexts
            THEN BrandGuess(PyNone, 0, PyNone, "rule_based_no_data")
            ELSE IF english.brand # 0
            THEN DictionaryGuess(english_brands[english.brand].brand, english.pattern,
                                 item_name, manufacturer, "rule_based_english")
            ELSE IF hebrew.brand # 0
            THEN DictionaryGuess(hebrew_brands[hebrew.brand].brand, hebrew.pattern,
                                 item_name, manufacturer, "rule_based_hebrew")
            ELSE IF manufacturer_brand(manufacturer) # ""
            THEN BrandGuess(PyStr(manufacturer_brand(manufacturer)), 600,
                            PyStr("manufacturer"), "rule_based_manufacturer")
            ELSE IF first_word_brand(item_name) # ""
            THEN BrandGuess(PyStr(first_word_brand(item_name)), 400,
                            PyStr("item_name"), "rule_based_first_word")
            ELSE BrandGuess(PyNone, 0, PyNone, "rule_based_failed")

\* extract_brand_with_rules(item_data): the guess, or the exception raised.
extract_brand_with_rules(item_data) ==
    LET name == LowerText(item_data, "ItemName", "item_name")
        manu == LowerText(item_data, "ManufacturerName", "item_manufacturer")
        desc == LowerText(item_data, "ManufacturerItemDescription", "item_description")
    IN  IF IsRaise(name) THEN name
        ELSE IF IsRaise(manu) THEN manu
        ELSE IF IsRaise(desc) THEN desc
        ELSE
        LET item_name == name.v
            manufacturer == manu.v
            combined_text == strip(item_name \o " " \o manufacturer \o " " \o desc.v)
            hebrew == FirstMatch(hebrew_brands, combined_text)
            english == FirstMatch(english_brands, combined_text)
        IN  IF combined_text = "" \/ combined_text \in UnknownTexts
            THEN BrandGuess(PyNone, 0, PyNone, "rule_based_no_data")
            ELSE IF hebrew.brand # 0
            THEN DictionaryGuess(hebrew_brands[hebrew.brand].brand, hebrew.pattern,
                                 item_name, manufacturer, "rule_based_hebrew")
            ELSE IF english.brand # 0
            THEN DictionaryGuess(english_brands[english.brand].brand, english.pattern,
                                 item_name, manufacturer, "rule_based_english")
            ELSE IF manufacturer_brand(manufacturer) # ""
            THEN BrandGuess(PyStr(manufacturer_brand(manufacturer)), 600,
                            PyStr("manufacturer"), "rule_based_manufacturer")
            ELSE IF first_word_brand(item_name) # ""
            THEN BrandGuess(PyStr(first_word_brand(item_name)), 400,
                            PyStr("item_name"), "rule_based_first_word")
            ELSE BrandGuess(PyNone, 0, PyNone, "rule_based_failed")

\* The items the extractor is called with: a name, a manufacturer and a
\* description, each absent, null or a text, under the keys of the feed
\* (ItemName, ...) or of the normalizer (item_name, ...).
NoField == [k \in {} |-> PyNone]
NameFields ==
    <<NoField,
      [item_name |-> PyNone],
      [ItemName |-> PyStr("")],
      [ItemName |-> PyStr("unknown")],
      [ItemName |-> PyStr("Coca Cola 1.5L")],
      [item_name |-> PyStr("milk 3%")],
      [ItemName |-> PyStr("חלב תנובה 1 ליטר")],
      [ItemName |-> PyStr("Nutella jar")],
      [item_name |-> PyStr("ab 12 גרם")]>>
ManufacturerFields ==
    <<NoField,
      [item_manufacturer |-> PyNone],
      [ManufacturerName |-> PyStr("")],
      [ManufacturerName |-> PyStr("Osem Ltd.")],
      [ManufacturerName |-> PyStr("לא ידוע")],
      [item_manufacturer |-> PyStr("A.B")],
      [ManufacturerName |-> PyStr("acme & co.")],
      [ManufacturerName |-> PyStr("Unknown")]>>
DescriptionFields ==
    <<NoField,
      [item_description |-> PyNone],
      [ManufacturerItemDescription |-> PyStr("pepsi max")],
      [ManufacturerItemDescription |-> PyFloat(1500)]>>

ExtractorItem(n, m, d) == NameFields[n] @@ ManufacturerFields[m] @@ DescriptionFields[d]
\* The items extract_brand_with_rules is called with: every combination of
\* the fields above, items whose name ends and whose manufacturer begins
\* with the words of a two-word pattern, an item named after each pattern of
\* the English dictionary, and items that spell an English brand with
\* punctuation inside.
ExtractorItems ==
    {ExtractorItem(n, m, d) : n \in 1..Len(NameFields), m \in 1..Len(ManufacturerFields),
                              d \in 1..Len(DescriptionFields)}
    \cup {[ItemName |-> PyStr("Diet Coca"), ManufacturerName |-> PyStr("Cola Inc.")],
          [ItemName |-> PyStr("Energy Red"), ManufacturerName |-> PyStr("Bull & co")]}
    \cup UNION {{[ItemName |-> PyStr(english_brands[i].patterns[j] \o " 330")] :
                    j \in 1..Len(english_brands[i].patterns)} :
                 i \in 1..Len(english_brands)}
    \cup {[ItemName |-> PyStr("cola 1l"), ManufacturerName |-> PyStr("Pep-si")],
          [ItemName |-> PyStr("x"), ManufacturerName |-> PyStr("NES.TLE")],
          [ItemName |-> PyStr("Coca-Cola zero")],
          [ManufacturerName |-> PyStr("Coca-Cola")]}

\* The handler of batch_extract_brands (lines 154-160): the item marked failed.
failed_item(item) ==
    enrich_item_with_brand(item, [brand |-> PyNone, confidence |-> PyFloat(0),
                                  source_field |-> PyNone, extraction_method |-> PyStr("failed")])

\* A wrong batch_extract_brands: no handler in the loop, the first exception ends it.
batch_extract_brands_aborting(items) ==
    FirstRaise([i \in 1..Len(items) |->
        IF IsRaise(extract_brand_with_rules(items[i])) THEN extract_brand_with_rules(items[i])
        ELSE enrich_item_with_brand(items[i], extract_brand_with_rules(items[i]))])

\* batch_extract_brands(items): each item enriched with its guess, or marked
\* failed when enrich_item_with_brand raised.
batch_extract_brands(items) ==
    PyList([i \in 1..Len(items) |->
        IF IsRaise(extract_brand_with_rules(items[i])) THEN failed_item(items[i])
        ELSE enrich_item_with_brand(items[i], extract_brand_with_rules(items[i]))])

\* The longest list batch_extract_brands is called with, and its elements.
MaxBatch == 2
Batches ==
    LET BatchItems == {ExtractorItem(5, 1, 1), ExtractorItem(2, 1, 1),
                       ExtractorItem(6, 4, 1), ExtractorItem(1, 1, 4)}
    IN  UNION {[1..n -> BatchItems] : n \in 0..MaxBatch}

(***************************************************************************)
(* The messages of the modelled feeds.  A body is the bytes delivered:     *)
(* utf8 says whether they decode, json is the text's JSON value, or        *)
(* Malformed when the text is no JSON.                                     *)
(***************************************************************************)
Malformed == [t |-> "malformed", v |-> ""]
Unbound == [t |-> "unbound", v |-> ""]

Body(utf8, json) == [utf8 |-> utf8, json |-> json]

Envelope(file_type, data) ==
    PyDict([data |-> data, metadata |-> PyDict([file_type |-> PyStr(file_type)])])

Milk == PyDict([ItemCode |-> PyStr("100"), ItemName |-> PyStr("milk"),
                ItemPrice |-> PyStr("6.90"), ItemBrand |-> PyStr("Tnuva"),
                PriceUpdateDate |-> PyStr("2025-01-01")])

\* The same item a while later: another name and price, no brand.
MilkAgain == PyDict([ItemCode |-> PyStr("100"), ItemName |-> PyStr("milk 1l"),
                     ItemPrice |-> PyStr("5.50"),
                     PriceUpdateDate |-> PyStr("2025-01-01 10:00")])

\* An item of a feed that carries no item-level update date.
Bread == PyDict([ItemCode |-> PyStr("200"), ItemName |-> PyStr("bread"),
                 ItemPrice |-> PyStr("6.905")])

\* An item without a name.
Nameless == PyDict([ItemCode |-> PyStr("300"), PriceUpdateDate |-> PyStr("2025-01-02")])

\* An item whose price is no number.
Unpriced == PyDict([ItemCode |-> PyStr("400"), ItemName |-> PyStr("salt"),
                    ItemPrice |-> PyStr("abc")])

PriceRoot(items) ==
    PyDict([Root |-> PyDict([ChainId |-> PyStr("7290"), StoreId |-> PyStr("001"),
                             Items |-> PyDict([Item |-> items])])])

StoreRoot(address, city) ==
    PyDict([Root |-> PyDict([ChainId |-> PyStr("7290"), ChainName |-> PyStr("chain"),
        LastUpdateDate |-> PyStr("2025-01-01"),
        SubChains |-> PyDict([SubChain |-> PyDict([SubChainID |-> PyStr("1"),
            Stores |-> PyDict([Store |-> PyDict([StoreID |-> PyStr("001"),
                StoreName |-> PyStr("store"), Address |-> PyStr(address),
                City |-> PyStr(city)])])])])])])

PromoRoot ==
    PyDict([Root |-> PyDict([ChainId |-> PyStr("7290"), StoreId |-> PyStr("001"),
        Promotions |-> PyDict([Promotion |-> PyDict([PromotionId |-> PyStr("9"),
            DiscountedPrice |-> PyStr("5.50"),
            PromotionItems |-> PyDict([Item |-> PyDict([ItemCode |-> PyStr("100")])])])])])])

Bodies ==
    <<Body(FALSE, Malformed),
      Body(TRUE, Malformed),
      Body(TRUE, PyList(<<PyInt(1)>>)),
      Body(TRUE, Envelope("PriceFull", PriceRoot(PyList(<<Milk, Bread>>)))),
      Body(TRUE, Envelope("PriceFull", PriceRoot(MilkAgain))),
      Body(TRUE, Envelope("PriceFull", PriceRoot(PyList(<<MilkAgain, Nameless>>)))),
      Body(TRUE, Envelope("PriceFull", PriceRoot(Unpriced))),
      Body(TRUE, Envelope("Stores", StoreRoot("1 Main St", "Haifa"))),
      Body(TRUE, Envelope("Stores", StoreRoot("2 Side St", "Akko"))),
      Body(TRUE, Envelope("PromoFull", PromoRoot)),
      Body(TRUE, Envelope("Other", PyDict([x |-> PyStr("y")])))>>

\* json.loads(text)
json_loads(json) == IF json.t = "malformed" THEN Raise("JSONDecodeError") ELSE json

(***************************************************************************)
(* queue_consumer.py                                                       *)
(***************************************************************************)
\* Deliveries the broker makes in one run.
MaxDeliveries == 2

\* The largest TEST_LIMIT of a run.
MaxTestLimit == 1

VARIABLES
    test_mode,            \* self.test_mode
    test_limit,           \* self.test_limit
    messages_processed,   \* self.messages_processed
    messages_successful,  \* self.messages_successful
    messages_failed,      \* self.messages_failed
    rabbitmq,             \* the broker connection and its channel: "open", "lost", "closed"
    consuming,            \* the consumers of basic_consume are registered
    dlq_queue,            \* the messages published to self.dlq_queue
    db,                   \* the database and self.db_manager.connection
    clock,                \* the time
    delivered,            \* deliveries made: the last delivery tag
    pc,                   \* where the consumer is
    delivery,             \* the delivery in hand: the locals of callback and
                          \* process_message, and what was done for it
    emitted,              \* stop() logged the final counters
    stops,                \* the calls of stop() so far, each "completed" or "failed"
                          \* (its exception logged at line 210)
    call                  \* a call of one of the pure operations, with its result

vars == <<test_mode, test_limit, messages_processed, messages_successful, messages_failed,
          rabbitmq, consuming, dlq_queue, db, clock, delivered, pc, delivery, emitted,
          stops, call>>

NoDelivery ==
    [tag |-> 0, body |-> 0, message |-> Unbound, normalized |-> Unbound,
     enriched |-> Unbound, error |-> "", result |-> "none", stages |-> <<>>,
     calls |-> <<>>, acks |-> <<>>, dead_letters |-> <<>>, counted |-> <<>>,
     before |-> [items |-> {}, stores |-> {}], ended |-> ""]

\* No pure operation is being called.
NoCall == [fn |-> "", args |-> <<>>, result |-> <<>>]

Init ==
    /\ test_mode \in BOOLEAN
    /\ test_limit \in (IF test_mode THEN 1..MaxTestLimit ELSE {MaxTestLimit})
    /\ messages_processed = 0
    /\ messages_successful = 0
    /\ messages_failed = 0
    /\ rabbitmq = "open"
    /\ consuming = TRUE
    /\ dlq_queue = <<>>
    /\ db = [items |-> {}, stores |-> {}, tx_items |-> {}, tx_stores |-> {},
             items_id_seq |-> 0, stores_id_seq |-> 0, connection |-> "open"]
    /\ clock = 0
    /\ delivered = 0
    /\ pc = "idle"
    /\ delivery = NoDelivery
    /\ emitted = FALSE
    /\ stops = <<>>
    /\ call = NoCall

\* The delivery in hand after `stage`, with the fields of `changes` set.
After(stage, changes) ==
    [k \in DOMAIN delivery |->
        IF k = "stages" THEN Append(delivery.stages, stage)
        ELSE IF k \in DOMAIN changes THEN changes[k] ELSE delivery[k]]

\* The dead-letter message of send_to_dlq (queue_consumer.py 81-85).
dlq_message(message, error, now) ==
    [original_message |-> message, error |-> error, timestamp |-> Timestamp(now)]

\* A wrong stop(): no handler, the exception of a failed call reaches the caller.
stop_without_handler(raises) ==
    IF rabbitmq # "open" /\ raises
    THEN /\ stops' = Append(stops, "raised")
         /\ UNCHANGED <<rabbitmq, consuming, db, emitted>>
    ELSE /\ consuming' = FALSE
         /\ rabbitmq' = "closed"
         /\ db' = close(db)
         /\ emitted' = TRUE
         /\ stops' = Append(stops, "completed")

\* A wrong stop(): the counters are logged and the database connection closed,
\* but consumption goes on over the open broker connection.
stop_still_consuming(raises) ==
    IF rabbitmq # "open" /\ raises
    THEN /\ stops' = Append(stops, "failed")
         /\ UNCHANGED <<rabbitmq, consuming, db, emitted>>
    ELSE /\ UNCHANGED <<rabbitmq, consuming>>
         /\ db' = close(db)
         /\ emitted' = TRUE
         /\ stops' = Append(stops, "completed")

\* stop(): stop_consuming, close the broker connection, close the database
\* connection, log the counters; an exception on the way ends it.  On a
\* connection that is no longer open the broker calls raise or not, as the
\* client library decides (`raises`).
stop(raises) ==
    IF rabbitmq # "open" /\ raises
    THEN /\ stops' = Append(stops, "failed")
         /\ UNCHANGED <<rabbitmq, consuming, db, emitted>>
    ELSE /\ consuming' = FALSE
         /\ rabbitmq' = "closed"
         /\ db' = close(db)
         /\ emitted' = TRUE
         /\ stops' = Append(stops, "completed")

\* A wrong consumer: callback is entered for the next delivery while a message
\* is in progress (callbacks run on several threads).
Deliver_while_busy(b) ==
    /\ pc \notin {"stopped", "exited"} /\ consuming /\ rabbitmq = "open"
    /\ delivered < MaxDeliveries
    /\ delivered' = delivered + 1
    /\ clock' = clock + 1
    /\ delivery' = [NoDelivery EXCEPT !.tag = delivered + 1, !.body = b,
                                      !.stages = <<"decode">>,
                                      !.before = [items |-> db.items, stores |-> db.stores]]
    /\ pc' = IF Bodies[b].utf8 THEN "process_message" ELSE "callback_except"
    /\ UNCHANGED <<call, stops, test_mode, test_limit, messages_processed, messages_successful,
                   messages_failed, rabbitmq, consuming, dlq_queue, db, emitted>>

\* The broker hands a message to callback, which decodes it (queue_consumer.py 145).
Deliver(b) ==
    /\ pc = "idle" /\ consuming /\ rabbitmq = "open"
    /\ delivered < MaxDeliveries
    /\ delivered' = delivered + 1
    /\ clock' = clock + 1
    /\ delivery' = [NoDelivery EXCEPT !.tag = delivered + 1, !.body = b,
                                      !.stages = <<"decode">>,
                                      !.before = [items |-> db.items, stores |-> db.stores]]
    /\ pc' = IF Bodies[b].utf8 THEN "process_message" ELSE "callback_except"
    /\ UNCHANGED <<call, stops, test_mode, test_limit, messages_processed, messages_successful,
                   messages_failed, rabbitmq, consuming, dlq_queue, db, emitted>>

\* process_message, lines 105-109: count, parse, log the file type.
Parse ==
    /\ pc = "process_message"
    /\ messages_processed' = messages_processed + 1
    /\ LET message == json_loads(Bodies[delivery.body].json)
           logged == Get(Get(message, "metadata", EmptyDict), "file_type", PyStr("unknown"))
       IN  IF IsRaise(message)
           THEN /\ delivery' = After("parse", [error |-> message.v,
                                                  counted |-> <<"processed">>])
                /\ pc' = "except"
           ELSE IF IsRaise(logged)
           THEN /\ delivery' = After("parse", [message |-> message, error |-> logged.v,
                                                  counted |-> <<"processed">>])
                /\ pc' = "except"
           ELSE /\ delivery' = After("parse", [message |-> message,
                                                  counted |-> <<"processed">>])
                /\ pc' = "normalize"
    /\ UNCHANGED <<call, stops, test_mode, test_limit, messages_successful, messages_failed, rabbitmq,
                   consuming, dlq_queue, db, clock, delivered, emitted>>

\* process_message, line 112.
Normalize ==
    /\ pc = "normalize"
    /\ LET normalized == normalize_message(delivery.message)
       IN  IF IsRaise(normalized)
           THEN /\ delivery' = After("normalize", [error |-> normalized.v])
                /\ pc' = "except"
           ELSE /\ delivery' = After("normalize", [normalized |-> normalized])
                /\ pc' = "validate"
    /\ UNCHANGED <<call, stops, test_mode, test_limit, messages_processed, messages_successful,
                   messages_failed, rabbitmq, consuming, dlq_queue, db, clock, delivered,
                   emitted>>

\* DataValidator.validate_message: pass or fail.
validate_message(normalized, valid) == valid

\* process_message, lines 115-116.
Validate(valid) ==
    /\ pc = "validate"
    /\ IF validate_message(delivery.normalized, valid)
       THEN /\ delivery' = After("validate", [error |-> ""])
            /\ pc' = "enrich"
       ELSE /\ delivery' = After("validate", [error |-> "Message validation failed"])
            /\ pc' = "validation_failed"
    /\ UNCHANGED <<call, stops, test_mode, test_limit, messages_processed, messages_successful,
                   messages_failed, rabbitmq, consuming, dlq_queue, db, clock, delivered,
                   emitted>>

\* The parsed envelope once enrich_message has worked on the normalized record.
\* normalize_generic_data (normalizer.py 168-172) puts the envelope's own data
\* and metadata dicts in the record, so what the enricher does to them is done
\* to the envelope; the other normalizers build the record, its collection
\* and every element of it anew (normalizer.py 48-53, 61-79, 86-91, 99-122,
\* 131-136, 149-161), and the enricher assigns only to those.
EnvelopeAfter(message, normalized, enriched) ==
    LET shared == IF normalized.type = "generic_data"
                  THEN {k \in {"data", "metadata"} : k \in DOMAIN message.v}
                  ELSE {}
    IN  PyDict([k \in DOMAIN message.v |->
                   IF k \in shared THEN enriched[k] ELSE message.v[k]])

\* The items the extractor is asked about.
ItemCount(normalized) == IF normalized.type = "price_data" THEN Len(normalized.items) ELSE 0

\* process_message, line 122.
Enrich ==
    /\ pc = "enrich"
    /\ \E brand_infos \in [1..ItemCount(delivery.normalized) -> BrandGuesses] :
          LET enriched == enrich_message(delivery.normalized, brand_infos, clock, test_mode)
          IN  delivery' = After("enrich",
                  [enriched |-> enriched,
                   message |-> EnvelopeAfter(delivery.message, delivery.normalized,
                                             enriched)])
    /\ pc' = "save"
    /\ UNCHANGED <<call, stops, test_mode, test_limit, messages_processed, messages_successful,
                   messages_failed, rabbitmq, consuming, dlq_queue, db, clock, delivered,
                   emitted>>

\* The statements save_to_database runs for a message, the commit included.
Statements(message) ==
    CASE message.type = "price_data" -> Len(message.items) + 1
      [] message.type = "store_data" -> Len(message.stores) + 1
      [] OTHER -> 0

\* process_message, lines 125-130.
Save ==
    /\ pc = "save"
    /\ \E lost \in 0..Statements(delivery.enriched) :
       LET saved == save_to_database(db, delivery.enriched, clock, lost)
       IN  /\ db' = saved.db
           /\ IF saved.result
              THEN /\ messages_successful' = messages_successful + 1
                   /\ delivery' = After("save", [calls |-> saved.calls, result |-> "True",
                          counted |-> Append(delivery.counted, "successful")])
                   /\ pc' = "ack"
              ELSE /\ messages_successful' = messages_successful
                   /\ delivery' = After("save",
                          [calls |-> saved.calls, error |-> "Failed to save to database"])
                   /\ pc' = "save_failed"
    /\ UNCHANGED <<call, stops, test_mode, test_limit, messages_processed, messages_failed, rabbitmq,
                   consuming, dlq_queue, clock, delivered, emitted>>

\* The error text of the failure path the consumer is on (lines 116, 130, 136).
ErrorText ==
    IF pc = "except" THEN <<"Message processing failed: ", delivery.error>>
    ELSE <<delivery.error>>

\* send_to_dlq: publish, and swallow the exception of a publish that fails.
\* The publish fails on a channel that is not open, and may fail on an open one
\* (`published` false).
send_to_dlq(message, error, published) ==
    IF rabbitmq = "open" /\ published
    THEN Append(dlq_queue, dlq_message(message, error, clock))
    ELSE dlq_queue

\* The three failure paths of process_message (lines 116-119, 130-133, 135-140):
\* send_to_dlq(message, error), count the failure, return False.  In the except
\* path `message` is unbound when json.loads raised, and naming it raises
\* UnboundLocalError out of process_message.
SendToDlq(published) ==
    /\ pc \in {"validation_failed", "save_failed", "except"}
    /\ IF pc = "except" /\ delivery.message = Unbound
       THEN /\ delivery' = After("except", [error |-> "UnboundLocalError"])
            /\ pc' = "callback_except"
            /\ UNCHANGED <<dlq_queue, messages_failed>>
       ELSE /\ dlq_queue' = send_to_dlq(delivery.message, ErrorText, published)
            /\ messages_failed' = messages_failed + 1
            /\ delivery' = After("send_to_dlq",
                   [result |-> "False",
                    counted |-> Append(delivery.counted, "failed"),
                    dead_letters |-> IF dlq_queue' # dlq_queue
                                     THEN Append(delivery.dead_letters,
                                                 dlq_queue'[Len(dlq_queue')])
                                     ELSE delivery.dead_letters])
            /\ pc' = "ack"
    /\ UNCHANGED <<call, stops, test_mode, test_limit, messages_processed, messages_successful, rabbitmq,
                   consuming, db, clock, delivered, emitted>>

\* A wrong callback: every message is acknowledged.
acknowledgement_always_ack(result) == "basic_ack"

\* callback, lines 146-149: basic_ack on success, else basic_nack(requeue=False).
acknowledgement(result) ==
    IF result = "True" THEN "basic_ack" ELSE "basic_nack(requeue=False)"

\* callback, lines 146-149; either call raises on a channel that is not open.
Acknowledge ==
    /\ pc = "ack"
    /\ IF rabbitmq = "open"
       THEN /\ delivery' = After("acknowledge",
                   [acks |-> Append(delivery.acks, acknowledgement(delivery.result))])
            /\ pc' = "check_limit"
       ELSE /\ delivery' = After("acknowledge", [error |-> "ChannelWrongStateError"])
            /\ pc' = "callback_except"
    /\ UNCHANGED <<call, stops, test_mode, test_limit, messages_processed, messages_successful,
                   messages_failed, rabbitmq, consuming, dlq_queue, db, clock, delivered,
                   emitted>>

\* callback, lines 152-154: stop() at the test limit; then callback returns.
CheckLimit(raises) ==
    /\ pc = "check_limit"
    /\ IF test_mode /\ messages_processed >= test_limit
       THEN /\ stop(raises)
            /\ delivery' = After("stop", [ended |-> "returned"])
       ELSE /\ UNCHANGED <<rabbitmq, consuming, db, emitted, stops>>
            /\ delivery' = After("return", [ended |-> "returned"])
    /\ pc' = IF consuming' THEN "idle" ELSE "stopped"
    /\ UNCHANGED <<call, test_mode, test_limit, messages_processed, messages_successful,
                   messages_failed, dlq_queue, clock, delivered>>

\* callback, lines 156-158: basic_nack(requeue=False) in the handler; when that
\* raises too, the exception leaves callback and start_consuming's handler
\* (line 190) calls stop().
CallbackExcept(raises) ==
    /\ pc = "callback_except"
    /\ IF rabbitmq = "open"
       THEN /\ delivery' = After("callback_except",
                   [acks |-> Append(delivery.acks, "basic_nack(requeue=False)"),
                    ended |-> "returned"])
            /\ pc' = "idle"
            /\ UNCHANGED <<rabbitmq, consuming, db, emitted, stops>>
       ELSE /\ delivery' = After("callback_except",
                   [error |-> "ChannelWrongStateError", ended |-> "raised"])
            /\ stop(raises)
            /\ pc' = "exited"
    /\ UNCHANGED <<call, test_mode, test_limit, messages_processed, messages_successful,
                   messages_failed, dlq_queue, clock, delivered>>

\* The connection to the broker is lost.
ConnectionLost ==
    /\ pc # "stopped"
    /\ rabbitmq = "open"
    /\ rabbitmq' = "lost"
    /\ UNCHANGED <<call, stops, test_mode, test_limit, messages_processed, messages_successful,
                   messages_failed, consuming, dlq_queue, db, clock, delivered, pc,
                   delivery, emitted>>

\* start_consuming, lines 190-192: waiting for a delivery raises on a lost connection.
ConsumerError(raises) ==
    /\ pc = "idle"
    /\ rabbitmq = "lost"
    /\ stop(raises)
    /\ pc' = "exited"
    /\ UNCHANGED <<call, test_mode, test_limit, messages_processed, messages_successful,
                   messages_failed, dlq_queue, clock, delivered, delivery>>

\* start_consuming, lines 187-189: Ctrl+C, wherever the consumer is, also
\* after the stop() of the test limit and before start_consuming has returned.
KeyboardInterrupt(raises) ==
    /\ pc # "exited"
    /\ stop(raises)
    /\ pc' = "exited"
    /\ UNCHANGED <<call, test_mode, test_limit, messages_processed, messages_successful,
                   messages_failed, dlq_queue, clock, delivered, delivery>>

\* start_consuming, line 185: the loop of the channel ends when stop() has
\* cancelled the consumers, and start_consuming returns.
Return ==
    /\ pc = "stopped"
    /\ pc' = "exited"
    /\ UNCHANGED <<call, stops, test_mode, test_limit, messages_processed,
                   messages_successful, messages_failed, rabbitmq, consuming, dlq_queue, db,
                   clock, delivered, delivery, emitted>>

Next ==
    \/ \E b \in 1..Len(Bodies) : Deliver(b)
    \/ Parse
    \/ Normalize
    \/ \E valid \in BOOLEAN : Validate(valid)
    \/ Enrich
    \/ Save
    \/ \E published \in BOOLEAN : SendToDlq(published)
    \/ Acknowledge
    \/ \E raises \in BOOLEAN : CheckLimit(raises)
    \/ \E raises \in BOOLEAN : CallbackExcept(raises)
    \/ ConnectionLost
    \/ \E raises \in BOOLEAN : ConsumerError(raises)
    \/ \E raises \in BOOLEAN : KeyboardInterrupt(raises)
    \/ Return

Spec == Init /\ [][Next]_vars

(***************************************************************************)
(* Properties.  `delivery` keeps, for the delivery in hand and until the   *)
(* next one, what was done for it: stages (the steps taken, in order),     *)
(* calls (the calls made on the database connection), acks (the            *)
(* acknowledgements sent), dead_letters (the dead-letter messages          *)
(* published), counted (the counters incremented), before (the committed   *)
(* tables at delivery), ended ("returned" or "raised" once callback has).  *)
(***************************************************************************)
Range(s) == {s[i] : i \in 1..Len(s)}

\* The envelope a dead-letter message of the delivery in hand should carry:
\* the parsed message, or the text of the body when it did not parse.
OriginalMessage ==
    IF delivery.message = Unbound THEN Bodies[delivery.body].json ELSE delivery.message

\* The body in hand decodes and is no JSON.
ParseFailed == delivery.tag > 0 /\ Bodies[delivery.body].utf8
               /\ Bodies[delivery.body].json = Malformed /\ "parse" \in Range(delivery.stages)

\* normalize_message raised for the delivery in hand.
NormalizationRaised == "normalize" \in Range(delivery.stages) /\ delivery.normalized = Unbound

\* validate_message returned False for the delivery in hand.
ValidationFailed == "validate" \in Range(delivery.stages) /\ delivery.enriched = Unbound
                    /\ delivery.error = "Message validation failed"

\* save_to_database returned False for the delivery in hand.
SaveFailed == "save" \in Range(delivery.stages) /\ delivery.result # "True"

\* C1: once callback has ended for a delivery, the message is in exactly one of
\* three states: acknowledged after save_to_database returned True, published
\* to the dead-letter queue, or left unacknowledged; and it is never removed by
\* basic_nack(requeue=False) without a dead-letter copy having been published.
C1_ExactlyOneOutcome ==
    delivery.ended # "" =>
        LET stored == delivery.acks = <<"basic_ack">> /\ delivery.result = "True"
            dead == delivery.dead_letters # <<>>
            pending == delivery.acks = <<>>
        IN  /\ \/ stored /\ ~dead /\ ~pending
               \/ ~stored /\ dead /\ ~pending
               \/ ~stored /\ ~dead /\ pending
            /\ "basic_nack(requeue=False)" \in Range(delivery.acks) => dead

\* C2: for a message that fails at any stage of process_message (parse,
\* normalization, validation, persistence), exactly one dead-letter message is
\* published, carrying the original envelope (or the unparsed body), a
\* non-empty error and a timestamp.
C2_DeadLetterFidelity ==
    (/\ delivery.ended = "returned"
     /\ "parse" \in Range(delivery.stages)
     /\ delivery.result # "True") =>
        /\ Len(delivery.dead_letters) = 1
        /\ delivery.dead_letters[1].original_message = OriginalMessage
        /\ delivery.dead_letters[1].error # <<>>
        /\ delivery.dead_letters[1].timestamp = Timestamp(clock)

\* C3: a body that is no JSON is routed to the dead-letter queue with the
\* parse error and counted as failed, and the normalizer, validator, enricher
\* and database are not called for it.
C3_ParseFailureDeadLettered ==
    (delivery.ended = "returned" /\ ParseFailed) =>
        /\ Len(delivery.dead_letters) = 1
        /\ delivery.dead_letters[1].error = <<"Message processing failed: ", "JSONDecodeError">>
        /\ "failed" \in Range(delivery.counted)
        /\ Range(delivery.stages) \cap {"normalize", "validate", "enrich", "save"} = {}

\* C4 as claimed: for every delivery whose callback has ended, exactly one
\* acknowledgement was sent, basic_ack iff process_message returned True and
\* basic_nack(requeue=False) otherwise.
C4_ExactlyOneAcknowledgement ==
    delivery.ended # "" =>
        /\ Len(delivery.acks) = 1
        /\ delivery.acks[1] = acknowledgement(delivery.result)

\* C4 as amended: at most one acknowledgement is sent for a delivery, and
\* exactly one when callback returns; it is basic_ack iff process_message
\* returned True and basic_nack(requeue=False) otherwise, never a requeue.
\* (When ack and nack raise on a closed channel none is sent.)
C4_AtMostOneAcknowledgement ==
    /\ Len(delivery.acks) <= 1
    /\ \A i \in 1..Len(delivery.acks) :
          /\ delivery.acks[i] \in {"basic_ack", "basic_nack(requeue=False)"}
          /\ delivery.acks[i] = "basic_ack" <=> delivery.result = "True"
    /\ delivery.ended = "returned" => Len(delivery.acks) = 1

\* A failed message was negatively acknowledged, once, and callback returned.
C4_Witness ==
    /\ delivery.ended = "returned"
    /\ delivery.result = "False"
    /\ delivery.acks = <<"basic_nack(requeue=False)">>

\* C5: between messages messages_processed = messages_successful +
\* messages_failed, each returned callback having incremented messages_processed
\* and exactly one of the other two.
C5_CountersBalance ==
    pc = "idle" =>
        /\ messages_processed = messages_successful + messages_failed
        /\ delivery.ended = "returned" =>
              delivery.counted \in {<<"processed", "successful">>, <<"processed", "failed">>}

\* C6: in test mode process_message is never entered for more than test_limit
\* deliveries.
C6_BoundedRun == test_mode => messages_processed <= test_limit

\* The rows of `table` with the key of `vals`.
RowsOf(table, key, vals) == {r \in table : \A c \in key : r[c] = vals[c]}

\* C7: whatever was saved, each key has one row in items and in stores, and
\* after a save that returned True the row of each record saved carries the
\* update columns of the last record of that key.
C7_UpsertIdempotent ==
    /\ \A r1, r2 \in db.items : (\A c \in ItemKey : r1[c] = r2[c]) => r1 = r2
    /\ \A r1, r2 \in db.stores : (\A c \in StoreKey : r1[c] = r2[c]) => r1 = r2
    /\ (pc = "ack" /\ delivery.result = "True" /\ delivery.enriched.type = "price_data") =>
          LET m == delivery.enriched
              vals == [i \in 1..Len(m.items) |-> ItemValues(m, m.items[i])]
          IN  \A i \in 1..Len(vals) :
                 (\A j \in (i + 1)..Len(vals) : \E c \in ItemKey : vals[j][c] # vals[i][c]) =>
                     /\ Cardinality(RowsOf(db.items, ItemKey, vals[i])) = 1
                     /\ \A r \in RowsOf(db.items, ItemKey, vals[i]) :
                           \A c \in ItemUpdateColumns : r[c] = vals[i][c]

\* C8: a write to a row that exists leaves every column but the update
\* columns and updated_at as it was: the key columns, created_at and the rest.
C8_UpsertFrame ==
    [][/\ \A r \in db.items : \A r2 \in db'.items :
             r2.id = r.id =>
                 \A c \in DOMAIN r \ (ItemUpdateColumns \cup {"updated_at"}) : r2[c] = r[c]
       /\ \A r \in db.stores : \A r2 \in db'.stores :
             r2.id = r.id =>
                 \A c \in DOMAIN r \ (StoreUpdateColumns \cup {"updated_at"}) : r2[c] = r[c]]_vars

\* An item row was updated by a later message whose record has another name:
\* the price is the later one, the name the first.
C8_Witness ==
    \E r \in db.items :
        /\ r.updated_at > r.created_at
        /\ r.item_price = PyFloat(5500)
        /\ r.item_name = PyStr("milk")

\* C9: the open transaction holds nothing between messages; when
\* save_to_database fails the tables are those before the message, it returns
\* False and the message is dead-lettered; when it succeeds every record has
\* its row.
C9_AtomicWrites ==
    /\ db.tx_items = db.items /\ db.tx_stores = db.stores
    /\ SaveFailed =>
          /\ db.items = delivery.before.items /\ db.stores = delivery.before.stores
          /\ "successful" \notin Range(delivery.counted)
          /\ delivery.ended = "returned" => delivery.dead_letters # <<>>
    /\ (pc = "ack" /\ delivery.result = "True" /\ delivery.enriched.type = "price_data") =>
          \A i \in 1..Len(delivery.enriched.items) :
              \E r \in db.items : r.item_code = delivery.enriched.items[i].item_code

\* The place of a step in the order of the stages.
StageRank(stage) ==
    CASE stage = "decode" -> 0
      [] stage = "parse" -> 1
      [] stage = "normalize" -> 2
      [] stage = "validate" -> 3
      [] stage = "enrich" -> 4
      [] stage = "save" -> 5
      [] stage \in {"send_to_dlq", "except"} -> 6
      [] stage = "acknowledge" -> 7
      [] stage = "callback_except" -> 8
      [] OTHER -> 9

\* C10: the stages of a delivery run in the order parse, normalize, validate,
\* enrich, persist, acknowledge; basic_ack is sent only after save_to_database
\* returned True, the commit done for a persisted type; and for a message whose
\* normalization raised or whose validation failed no call is made on the
\* database and the message is dead-lettered.
C10_StageOrder ==
    /\ \A i, j \in 1..Len(delivery.stages) :
          i < j => StageRank(delivery.stages[i]) < StageRank(delivery.stages[j])
    /\ "basic_ack" \in Range(delivery.acks) =>
          /\ delivery.result = "True"
          /\ delivery.enriched.type \in {"price_data", "store_data"} =>
                delivery.calls # <<>> /\ delivery.calls[Len(delivery.calls)] = "commit"
    /\ (NormalizationRaised \/ ValidationFailed) =>
          /\ delivery.calls = <<>>
          /\ "save" \notin Range(delivery.stages)
          /\ delivery.ended = "returned" => delivery.dead_letters # <<>>

\* How often process_message was entered for the delivery in hand.
Attempts == Cardinality({i \in 1..Len(delivery.stages) : delivery.stages[i] = "parse"})

\* C11: process_message is entered at most once for a delivery, no
\* acknowledgement asks for the message to be queued again, and a message that
\* failed is dead-lettered, once, after that one attempt.
C11_SingleAttempt ==
    /\ Attempts <= 1
    /\ Range(delivery.acks) \subseteq {"basic_ack", "basic_nack(requeue=False)"}
    /\ (delivery.ended = "returned" /\ Attempts = 1 /\ delivery.result # "True") =>
          Len(delivery.dead_letters) = 1

\* C12: callback is entered for a delivery only when no message is in progress:
\* the consumer is idle and the delivery before has returned from callback with
\* its acknowledgement sent.
C12_OneAtATime ==
    [][delivered' # delivered =>
          /\ pc = "idle"
          /\ \/ delivery.tag = 0
             \/ delivery.ended = "returned" /\ Len(delivery.acks) = 1]_vars

\* The second delivery is in progress, the first done.
C12_Witness == delivery.tag = 2 /\ pc = "normalize"

\* C13: when stop() has closed the connections, the message that entered
\* process_message has been acknowledged, positively or negatively.
C13_StopBetweenMessages ==
    (stops # <<>> /\ stops[Len(stops)] = "completed") =>
        (Attempts > 0 => Len(delivery.acks) = 1)

\* C14: a call of stop() after one that completed raises nothing to its caller
\* and leaves the consumer as it was: not consuming, the broker connection
\* closed, the database connection closed; and no call of stop() raises.
C14_StopIdempotent ==
    [][stops' # stops =>
          /\ stops'[Len(stops')] \in {"completed", "failed"}
          /\ "completed" \in Range(stops) =>
                /\ consuming' = consuming /\ rabbitmq' = rabbitmq /\ db' = db
                /\ ~consuming' /\ rabbitmq' = "closed" /\ db'.connection = "closed"]_vars

\* stop() was called again after a call that completed.
C14_Witness == Len(stops) = 2 /\ stops[1] = "completed"

(***************************************************************************)
(* The operations called on their own, as test_rule_based_extractor.py     *)
(* calls the extractor: the consumer is constructed and stays idle, `call` *)
(* holds the operation called, its argument and what it returned or raised.*)
(* The operations keep no state between calls, so a behaviour makes one.   *)
(***************************************************************************)
\* extract_brand_with_rules(item_data) is called.
CallExtract(item_data) ==
    /\ call = NoCall
    /\ call' = [fn |-> "extract_brand_with_rules", args |-> item_data,
                result |-> extract_brand_with_rules(item_data)]
    /\ UNCHANGED <<stops, test_mode, test_limit, messages_processed, messages_successful,
                   messages_failed, rabbitmq, consuming, dlq_queue, db, clock, delivered,
                   pc, delivery, emitted>>

\* batch_extract_brands(items) is called.
CallBatch(items) ==
    /\ call = NoCall
    /\ call' = [fn |-> "batch_extract_brands", args |-> items,
                result |-> batch_extract_brands(items)]
    /\ UNCHANGED <<stops, test_mode, test_limit, messages_processed, messages_successful,
                   messages_failed, rabbitmq, consuming, dlq_queue, db, clock, delivered,
                   pc, delivery, emitted>>

\* The messages enrich_message is called with: what normalize_message makes of
\* the modelled bodies, and those with a null in place of an element.
NormalizedMessages ==
    {m \in {normalize_message(json_loads(Bodies[b].json)) :
               b \in {c \in 1..Len(Bodies) : ~IsRaise(json_loads(Bodies[c].json))}} :
        ~IsRaise(m)}
Collection(m) ==
    CASE m.type = "price_data" -> "items"
      [] m.type = "promo_data" -> "promotions"
      [] m.type = "store_data" -> "stores"
      [] OTHER -> "type"
EnricherMessages ==
    LET WithNull(m, k) == [m EXCEPT ![Collection(m)] = [@ EXCEPT ![k] = PyNone]]
    IN  NormalizedMessages \cup
        UNION {{WithNull(m, k) : k \in 1..Len(m[Collection(m)])} :
               m \in {n \in NormalizedMessages : Collection(n) # "type"}}

\* The values a numeric field of the feed may hold: none (the key is absent),
\* null, a text that is no number, and numbers.
NoValue == [t |-> "absent", v |-> ""]
NumericValues == {NoValue, PyNone, PyStr("abc"), PyStr("5.50"), PyInt(2)}
With(d, k, x) ==
    IF x = NoValue THEN PyDict([c \in DOMAIN d.v \ {k} |-> d.v[c]])
    ELSE PyDict([c \in DOMAIN d.v \cup {k} |-> IF c = k THEN x ELSE d.v[c]])

\* A price message whose item holds x in numeric field k, and a promotion
\* message whose promotion does.
ItemFields == {"ItemPrice", "Quantity", "ItemPromotionPrice"}
PromotionFields == {"DiscountedPrice", "MinQty"}
PriceWith(k, x) == Envelope("PriceFull", PriceRoot(PyList(<<With(Bread, k, x)>>)))
PromoWith(k, x) ==
    Envelope("PromoFull",
        PyDict([Root |-> PyDict([ChainId |-> PyStr("7290"), StoreId |-> PyStr("001"),
            Promotions |-> PyDict([Promotion |->
                PyList(<<With(PyDict([PromotionId |-> PyStr("9")]), k, x)>>)])])]))

\* Feeds of the two versions: the chain identifier under chain_key, an update
\* date on the item (PriceUpdateDate) and on the document (LastUpdateDate),
\* each present or not.
ChainKeys == {"ChainId", "ChainID"}
ItemDates == {NoValue, PyStr("2025-01-01")}
DocumentDates == {NoValue, PyStr("2025-01-02")}
VersionedPrice(chain_key, item_date, document_date) ==
    Envelope("PriceFull",
        PyDict([Root |->
            With(With(PyDict([StoreId |-> PyStr("001"),
                              Items |-> PyDict([Item |->
                                  PyList(<<With(Bread, "PriceUpdateDate", item_date)>>)])]),
                      chain_key, PyStr("7290")),
                 "LastUpdateDate", document_date)]))
VersionedStores(chain_key) ==
    Envelope("Stores",
        PyDict([Root |->
            With(PyDict([ChainName |-> PyStr("chain"),
                         SubChains |-> PyDict([SubChain |-> PyDict([SubChainID |-> PyStr("1"),
                             Stores |-> PyDict([Store |->
                                 PyDict([StoreID |-> PyStr("001")])])])])]),
                 chain_key, PyStr("7290"))]))

\* The messages normalize_message is called with: the modelled bodies that
\* parse, a feed whose only item is null, the messages above, and envelopes
\* for each branch of normalize_message: a store feed, a payload without
\* stores and a payload that only names a chain 'Mega Stores', each under
\* every file type.
NormalizerMessages ==
    LET FileTypes == {"PriceFull", "PromoFull", "Stores", "Other"}
        Payloads ==
            {StoreRoot("1 Main St", "Haifa"),
             PyDict([x |-> PyStr("y")]),
             PyDict([Root |-> PyDict([ChainId |-> PyStr("7290"),
                                      ChainName |-> PyStr("Mega Stores")])])}
    IN  {json_loads(Bodies[b].json) :
            b \in {c \in 1..Len(Bodies) : Bodies[c].json.t # "malformed"}}
        \cup {Envelope("PriceFull", PriceRoot(PyNone))}
        \cup {PriceWith(k, x) : k \in ItemFields, x \in NumericValues}
        \cup {PromoWith(k, x) : k \in PromotionFields, x \in NumericValues}
        \cup {VersionedPrice(k, i, d) : k \in ChainKeys, i \in ItemDates, d \in DocumentDates}
        \cup {VersionedStores(k) : k \in ChainKeys}
        \cup {Envelope(file_type, data) : file_type \in FileTypes, data \in Payloads}

\* normalize_message(message) is called.
CallNormalize(message) ==
    /\ call = NoCall
    /\ call' = [fn |-> "normalize_message", args |-> message,
                result |-> normalize_message(message)]
    /\ UNCHANGED <<stops, test_mode, test_limit, messages_processed, messages_successful,
                   messages_failed, rabbitmq, consuming, dlq_queue, db, clock, delivered,
                   pc, delivery, emitted>>

\* enrich_message(normalized_message) is called; `handled` tells whether its
\* handler ran (line 28).
CallEnrich(normalized_message) ==
    /\ call = NoCall
    /\ \E brand_infos \in [1..ItemCount(normalized_message) -> BrandGuesses] :
          LET block == enrich_dispatch(normalized_message, brand_infos, clock, test_mode)
          IN  call' = [fn |-> "enrich_message", args |-> normalized_message,
                       result |-> enrich_message(normalized_message, brand_infos, clock,
                                                 test_mode),
                       handled |-> block.raised]
    /\ UNCHANGED <<stops, test_mode, test_limit, messages_processed, messages_successful,
                   messages_failed, rabbitmq, consuming, dlq_queue, db, clock, delivered,
                   pc, delivery, emitted>>

\* Items of a feed named after a brand of the Hebrew dictionary, with an empty
\* ManufacturerName, no description and no brand; the record normalize_message
\* makes of a feed with such an item, and the item in it.
BrandedNames ==
    <<[name |-> "חלב תנובה 1 ליטר", brand |-> "תנובה"],
      [name |-> "Osem ketchup", brand |-> "אסם"]>>
HebrewNamed(n) ==
    PyDict([ItemCode |-> PyStr("500"), ItemName |-> PyStr(BrandedNames[n].name),
            ManufacturerName |-> PyStr(""), ItemPrice |-> PyStr("6.90"),
            PriceUpdateDate |-> PyStr("2025-01-01")])
NormalizedFeed(item) == normalize_message(Envelope("PriceFull", PriceRoot(PyList(<<item>>))))
NormalizedItem(item) == NormalizedFeed(item).items[1]

\* The items the rule-based enrich_item_with_brand is called with: items as
\* the feed has them and as the normalizer makes them.
ItemsToEnrich ==
    {HebrewNamed(n).v : n \in 1..Len(BrandedNames)}
    \cup {NormalizedItem(HebrewNamed(n)) : n \in 1..Len(BrandedNames)}
    \cup {NormalizedItem(Milk), NormalizedItem(Nameless)}

\* RuleBasedBrandExtractor.enrich_item_with_brand(item_data) is called.
CallEnrichItem(item_data) ==
    /\ call = NoCall
    /\ call' = [fn |-> "enrich_item_with_brand", args |-> item_data,
                result |-> IF IsRaise(extract_brand_with_rules(item_data))
                           THEN extract_brand_with_rules(item_data)
                           ELSE enrich_item_with_brand(item_data,
                                    extract_brand_with_rules(item_data))]
    /\ UNCHANGED <<stops, test_mode, test_limit, messages_processed, messages_successful,
                   messages_failed, rabbitmq, consuming, dlq_queue, db, clock, delivered,
                   pc, delivery, emitted>>

\* The item code of the i-th item of a long feed: 701, 702, ...
CodeOf(i) ==
    LET Digits == <<"0", "1", "2", "3", "4", "5", "6", "7", "8", "9">>
    IN  "7" \o Digits[(i \div 10) + 1] \o Digits[(i % 10) + 1]

\* The price_data records enriched and then saved: a feed of max_items + 1
\* branded items and a feed of two items.
RecordsToSave ==
    LET ManyItems ==
            PyList([i \in 1..(max_items + 1) |->
                PyDict([ItemCode |-> PyStr(CodeOf(i)), ItemName |-> PyStr("milk"),
                        ItemPrice |-> PyStr("6.90"), ItemBrand |-> PyStr("Tnuva"),
                        PriceUpdateDate |-> PyStr("2025-01-01")])])
    IN  {normalize_message(Envelope("PriceFull", PriceRoot(ManyItems))),
         normalize_message(Envelope("PriceFull", PriceRoot(PyList(<<Milk, Bread>>))))}

\* process_message, lines 122-125, on an empty database: enrich_message and
\* then save_to_database of what it returned.  The extractor gives one guess.
CallEnrichThenSave(normalized) ==
    /\ call = NoCall
    /\ \E brand_info \in BrandGuesses :
          LET enriched == enrich_message(normalized,
                              [i \in 1..ItemCount(normalized) |-> brand_info], clock,
                              test_mode)
          IN  call' = [fn |-> "save_to_database", args |-> normalized,
                       enriched |-> enriched,
                       result |-> save_to_database(db, enriched, clock, 0)]
    /\ UNCHANGED <<stops, test_mode, test_limit, messages_processed, messages_successful,
                   messages_failed, rabbitmq, consuming, dlq_queue, db, clock, delivered,
                   pc, delivery, emitted>>

NextCall ==
    \/ \E item_data \in ExtractorItems : CallExtract(item_data)
    \/ \E items \in Batches : CallBatch(items)
    \/ \E normalized_message \in EnricherMessages : CallEnrich(normalized_message)
    \/ \E message \in NormalizerMessages : CallNormalize(message)
    \/ \E item_data \in ItemsToEnrich : CallEnrichItem(item_data)
    \/ \E normalized \in RecordsToSave : CallEnrichThenSave(normalized)

SpecCalls == Init /\ [][NextCall]_vars

\* C15: enrich_message never raises, and when a step inside it failed the
\* message it returns is the message it was given, as it was before the call.
C15_EnrichFailOpen ==
    call.fn = "enrich_message" =>
        /\ ~IsRaise(call.result)
        /\ call.handled => call.result = call.args

\* C16: extract_brand_with_rules returns a guess for every item whose name,
\* manufacturer and description are each absent, null or a text, and a guess
\* without a brand has confidence 0.
C16_ExtractorTotal ==
    (/\ call.fn = "extract_brand_with_rules"
     /\ \A k \in DOMAIN call.args : call.args[k].t \in {"none", "str"}) =>
        /\ ~IsRaise(call.result)
        /\ call.result.brand = PyNone => call.result.confidence = PyFloat(0)

\* The patterns of a dictionary.
PatternsOf(brands) ==
    UNION {{lower(brands[i].patterns[j]) : j \in 1..Len(brands[i].patterns)} :
           i \in 1..Len(brands)}

\* C17: when a pattern of the Hebrew dictionary occurs in the combined text
\* the guess is a Hebrew dictionary guess, else when one of the English
\* dictionary occurs an English dictionary guess, whatever the manufacturer
\* and the first word; a manufacturer guess (confidence 0.6) is returned only
\* when no pattern occurs, a first-word guess (0.4) only when moreover the
\* manufacturer yields none; any other guess has no brand and confidence 0.
C17_CascadeOrder ==
    (call.fn = "extract_brand_with_rules" /\ ~IsRaise(call.result)) =>
        LET item_name == LowerText(call.args, "ItemName", "item_name").v
            manufacturer == LowerText(call.args, "ManufacturerName", "item_manufacturer").v
            description ==
                LowerText(call.args, "ManufacturerItemDescription", "item_description").v
            combined_text == strip(item_name \o " " \o manufacturer \o " " \o description)
            hebrew == \E p \in PatternsOf(hebrew_brands) : In(p, combined_text)
            english == \E p \in PatternsOf(english_brands) : In(p, combined_text)
            method == call.result.extraction_method.v
            dictionary_guess ==
                /\ call.result.confidence \in {PyFloat(900), PyFloat(700)}
                /\ call.result.confidence = PyFloat(900) <=>
                      call.result.source_field = PyStr("item_name")
        IN  /\ hebrew =>
                 /\ method = "rule_based_hebrew" /\ dictionary_guess
                 /\ \E i \in 1..Len(hebrew_brands) :
                       call.result.brand = PyStr(hebrew_brands[i].brand)
            /\ (~hebrew /\ english) =>
                 /\ method = "rule_based_english" /\ dictionary_guess
                 /\ \E i \in 1..Len(english_brands) :
                       call.result.brand = PyStr(english_brands[i].brand)
            /\ method \in {"rule_based_hebrew", "rule_based_english"} => hebrew \/ english
            /\ method = "rule_based_manufacturer" =>
                 /\ ~hebrew /\ ~english
                 /\ call.result.confidence = PyFloat(600)
                 /\ call.result.source_field = PyStr("manufacturer")
            /\ method = "rule_based_first_word" =>
                 /\ ~hebrew /\ ~english
                 /\ manufacturer_brand(manufacturer) = ""
                 /\ call.result.confidence = PyFloat(400)
            /\ method \notin {"rule_based_hebrew", "rule_based_english",
                              "rule_based_manufacturer", "rule_based_first_word"} =>
                 call.result.brand = PyNone /\ call.result.confidence = PyFloat(0)

\* A dictionary guess for an item whose manufacturer would yield a brand.
C17_Witness ==
    /\ call.fn = "extract_brand_with_rules"
    /\ ~IsRaise(call.result)
    /\ call.result.extraction_method = PyStr("rule_based_hebrew")
    /\ manufacturer_brand(
           LowerText(call.args, "ManufacturerName", "item_manufacturer").v) = "Acme  Co"

CollectionFields ==
    {<<"Items", "Item">>, <<"Promotions", "Promotion">>, <<"PromotionItems", "Item">>,
     <<"SubChains", "SubChain">>, <<"Stores", "Store">>}

\* Dict d with the bare object at `key`, if it holds one, in a one-element list.
InList(d, key) ==
    IF d.t = "dict" /\ key \in DOMAIN d.v /\ d.v[key].t # "list"
    THEN PyDict([d.v EXCEPT ![key] = PyList(<<@>>)])
    ELSE d

RECURSIVE WrapAt(_, _, _)
\* Value x with every bare object at container.key in a one-element list.
WrapAt(x, container, key) ==
    CASE x.t = "dict" ->
           PyDict([k \in DOMAIN x.v |->
               IF k = container THEN InList(WrapAt(x.v[k], container, key), key)
               ELSE WrapAt(x.v[k], container, key)])
      [] x.t = "list" -> PyList([i \in 1..Len(x.v) |-> WrapAt(x.v[i], container, key)])
      [] OTHER -> x

\* C19: for each nested collection field, normalize_message gives for a
\* message with a bare object in that field what it gives for the message
\* with the object in a one-element list: the same record or the same error.
C19_BareAsList ==
    call.fn = "normalize_message" =>
        \A field \in CollectionFields :
            normalize_message(WrapAt(call.args, field[1], field[2])) = call.result

\* A promotion message normalized whose Promotion and whose PromotionItems.Item
\* are bare objects.
C19_Witness ==
    /\ call.fn = "normalize_message"
    /\ ~IsRaise(call.result)
    /\ WrapAt(call.args, "Promotions", "Promotion") # call.args
    /\ WrapAt(call.args, "PromotionItems", "Item") # call.args
    /\ Len(call.result.promotions) = 1
    /\ Len(call.result.promotions[1].items) = 1

\* The field of the normalized record that holds numeric field k of the feed.
NormalizedField ==
    [k \in ItemFields \cup PromotionFields |->
        CASE k = "ItemPrice" -> "item_price"
          [] k = "Quantity" -> "item_quantity"
          [] k = "ItemPromotionPrice" -> "item_promotion_price"
          [] k = "DiscountedPrice" -> "discounted_price"
          [] k = "MinQty" -> "min_qty"]

\* C20: whatever a numeric field of an item or a promotion holds, the message
\* is normalized, the field of the normalized record is a number, and it is 0
\* when the value is missing, null or no number.
C20_NumericDefaults ==
    call.fn = "normalize_message" =>
        \A x \in NumericValues :
            /\ \A k \in ItemFields :
                  call.args = PriceWith(k, x) =>
                      /\ ~IsRaise(call.result)
                      /\ call.result.items[1][NormalizedField[k]].t = "float"
                      /\ x \in {NoValue, PyNone, PyStr("abc")} =>
                            call.result.items[1][NormalizedField[k]] = PyFloat(0)
            /\ \A k \in PromotionFields :
                  call.args = PromoWith(k, x) =>
                      /\ ~IsRaise(call.result)
                      /\ call.result.promotions[1][NormalizedField[k]].t = "float"
                      /\ x \in {NoValue, PyNone, PyStr("abc")} =>
                            call.result.promotions[1][NormalizedField[k]] = PyFloat(0)

\* C21: the chain identifier of the normalized record is the one of the feed,
\* whichever of the two keys holds it, and an item's last_update_date is the
\* date on the item when there is one, else the date on the document.
C21_BothNamingConventions ==
    call.fn = "normalize_message" =>
        \A chain_key \in ChainKeys :
            /\ call.args = VersionedStores(chain_key) =>
                  ~IsRaise(call.result) /\ call.result.chain_id = PyStr("7290")
            /\ \A item_date \in ItemDates, document_date \in DocumentDates :
                  call.args = VersionedPrice(chain_key, item_date, document_date) =>
                      /\ ~IsRaise(call.result)
                      /\ call.result.chain_id = PyStr("7290")
                      /\ call.result.items[1].last_update_date =
                            IF item_date # NoValue THEN item_date
                            ELSE IF document_date # NoValue THEN document_date
                            ELSE PyNone

RECURSIVE HasStores(_)
\* Whether payload x has a Stores substructure: a dict with the key 'Stores'.
HasStores(x) ==
    CASE x.t = "dict" -> "Stores" \in DOMAIN x.v \/ \E k \in DOMAIN x.v : HasStores(x.v[k])
      [] x.t = "list" -> \E i \in 1..Len(x.v) : HasStores(x.v[i])
      [] OTHER -> FALSE

\* C22: a normalized record is a price_data record when file_type is
\* 'PriceFull', a promo_data record when it is 'PromoFull', else a store_data
\* record when the payload has a Stores substructure, else a generic_data
\* record that carries the data and the metadata given.
C22_BranchSelection ==
    (call.fn = "normalize_message" /\ ~IsRaise(call.result)) =>
        LET data == Get(call.args, "data", EmptyDict)
            metadata == Get(call.args, "metadata", EmptyDict)
            file_type == Get(metadata, "file_type", PyStr(""))
        IN  /\ call.result.type =
                  CASE file_type = PyStr("PriceFull") -> "price_data"
                    [] file_type = PyStr("PromoFull") -> "promo_data"
                    [] file_type \notin {PyStr("PriceFull"), PyStr("PromoFull")}
                       /\ HasStores(data) -> "store_data"
                    [] OTHER -> "generic_data"
            /\ call.result.type = "generic_data" =>
                  call.result.data = data /\ call.result.metadata = metadata

\* C23: when save_to_database has been called for a record that is neither
\* price_data nor store_data, it returned True and made no call on the
\* connection, the committed tables are what they were when the message was
\* delivered, the message is counted as successful, and when callback returns
\* it has sent basic_ack.
C23_UnpersistedNoOp ==
    ("save" \in Range(delivery.stages)
     /\ delivery.enriched.type \notin {"price_data", "store_data"}) =>
        /\ delivery.result = "True"
        /\ delivery.calls = <<>>
        /\ db.items = delivery.before.items /\ db.stores = delivery.before.stores
        /\ "successful" \in Range(delivery.counted)
        /\ delivery.ended = "returned" => delivery.acks = <<"basic_ack">>

\* The fields enrich_item_with_brand adds to an item.
BrandFields == {"brand_confidence", "brand_source", "brand_extraction_method"}

\* C24: after enrichment of a price_data record, an item that came with a
\* non-empty item_brand has that brand and none of the fields the extractor
\* adds, and an item that came with an empty or absent item_brand has them.
C24_ExtractorOnlyWithoutBrand ==
    ("enrich" \in Range(delivery.stages) /\ delivery.normalized.type = "price_data") =>
        /\ Len(delivery.enriched.items) = Len(delivery.normalized.items)
        /\ \A i \in 1..Len(delivery.enriched.items) :
              LET given == delivery.normalized.items[i]
                  item == delivery.enriched.items[i]
              IN  IF Truthy(Field(given, "item_brand"))
                  THEN /\ item.item_brand = given.item_brand
                       /\ BrandFields \cap DOMAIN item = {}
                  ELSE BrandFields \subseteq DOMAIN item

\* A message enriched whose first item came with a brand and whose second
\* came without one.
C24_Witness ==
    /\ "enrich" \in Range(delivery.stages)
    /\ delivery.normalized.type = "price_data"
    /\ Len(delivery.enriched.items) = 2
    /\ delivery.enriched.items[1].item_brand = PyStr("Tnuva")
    /\ "brand_confidence" \notin DOMAIN delivery.enriched.items[1]
    /\ delivery.normalized.items[2].item_brand = PyNone
    /\ "brand_confidence" \in DOMAIN delivery.enriched.items[2]

\* C25: for an item of the feed named after a brand of the Hebrew dictionary,
\* with an empty ManufacturerName, no description and no brand, the rule-based
\* enrich_item_with_brand called with the normalized item returns it with
\* item_brand the brand of the dictionary, brand_confidence 0.9 and method
\* 'rule_based_hebrew', and the item upsert binds that brand.
C25_HebrewBrandEndToEnd ==
    call.fn = "enrich_item_with_brand" =>
        \A n \in 1..Len(BrandedNames) :
            call.args = NormalizedItem(HebrewNamed(n)) =>
                /\ ~IsRaise(call.result)
                /\ call.result.item_brand = PyStr(BrandedNames[n].brand)
                /\ call.result.brand_confidence = PyFloat(900)
                /\ call.result.brand_extraction_method = PyStr("rule_based_hebrew")
                /\ ItemValues(NormalizedFeed(HebrewNamed(n)), call.result).item_brand =
                      PyStr(BrandedNames[n].brand)

\* The pattern a dictionary guess matched: the first pattern of the guessed
\* brand that occurs in the combined text.
MatchedPattern(brands, brand, combined_text) ==
    LET entry == brands[CHOOSE i \in 1..Len(brands) : PyStr(brands[i].brand) = brand]
        hit == {j \in 1..Len(entry.patterns) : In(lower(entry.patterns[j]), combined_text)}
    IN  lower(entry.patterns[CHOOSE j \in hit : \A k \in hit : j <= k])

\* C26: a dictionary guess has confidence 0.9 when the matched pattern occurs
\* in the item name and 0.7 when it does not, and its source_field names the
\* first of item name, manufacturer and description that contains the
\* pattern: the field it names contains the pattern.
C26_DictionaryConfidenceAndSource ==
    (/\ call.fn = "extract_brand_with_rules"
     /\ ~IsRaise(call.result)
     /\ call.result.extraction_method \in
            {PyStr("rule_based_hebrew"), PyStr("rule_based_english")}) =>
        LET item_name == LowerText(call.args, "ItemName", "item_name").v
            manufacturer == LowerText(call.args, "ManufacturerName", "item_manufacturer").v
            description ==
                LowerText(call.args, "ManufacturerItemDescription", "item_description").v
            combined_text == strip(item_name \o " " \o manufacturer \o " " \o description)
            pattern ==
                MatchedPattern(
                    IF call.result.extraction_method = PyStr("rule_based_hebrew")
                    THEN hebrew_brands ELSE english_brands,
                    call.result.brand, combined_text)
        IN  /\ call.result.confidence =
                  IF In(pattern, item_name) THEN PyFloat(900) ELSE PyFloat(700)
            /\ call.result.source_field =
                  IF In(pattern, item_name) THEN PyStr("item_name")
                  ELSE IF In(pattern, manufacturer) THEN PyStr("manufacturer")
                  ELSE PyStr("description")
            /\ \/ call.result.source_field = PyStr("item_name") /\ In(pattern, item_name)
               \/ call.result.source_field = PyStr("manufacturer")
                  /\ In(pattern, manufacturer)
               \/ call.result.source_field = PyStr("description")
                  /\ In(pattern, description)

\* C27: once stop() has been called and has returned, the consumer consumes no
\* more, the database connection is closed and the final counters have been
\* logged, also when the call on the broker connection failed.
C27_StopReleasesEverything ==
    stops # <<>> =>
        /\ ~consuming
        /\ rabbitmq # "open"
        /\ db.connection = "closed"
        /\ emitted

\* C28: a database connection that is not open never becomes open again, and
\* whenever callback has returned for a message whose save failed, one
\* dead-letter message with the persistence-failure reason has been published
\* for it and basic_nack(requeue=False) has been sent.
C28_NoReconnectNoPending ==
    [][/\ db.connection # "open" => db'.connection # "open"
       /\ (/\ delivery'.ended = "returned"
           /\ "save" \in Range(delivery'.stages)
           /\ delivery'.result # "True") =>
              /\ Len(delivery'.dead_letters) = 1
              /\ delivery'.dead_letters[1].error = <<"Failed to save to database">>
              /\ delivery'.acks = <<"basic_nack(requeue=False)">>]_vars

\* The first n elements of sequence q, all of them when it has no more.
FirstOf(q, n) == SubSeq(q, 1, IF Len(q) > n THEN n ELSE Len(q))

\* C29: in test mode the enriched price_data record holds the first 20 items
\* of the record given, in their order, and the save that follows writes a row
\* for each of them and for no other item; outside test mode the record holds
\* every item given and the save writes them all.
C29_TestModeTruncation ==
    call.fn = "save_to_database" =>
        LET given == IF test_mode THEN FirstOf(call.args.items, max_items)
                     ELSE call.args.items
            items == call.enriched.items
        IN  /\ Len(items) = Len(given)
            /\ \A i \in 1..Len(items) : items[i].item_code = given[i].item_code
            /\ call.result.result
            /\ {r.item_code : r \in call.result.db.items} =
                  {given[i].item_code : i \in 1..Len(given)}
            /\ Cardinality(call.result.db.items) = Len(given)

\* In test mode a record of 21 items was enriched and saved: 20 rows.
C29_Witness ==
    /\ call.fn = "save_to_database"
    /\ test_mode
    /\ Len(call.args.items) = max_items + 1
    /\ Len(call.enriched.items) = max_items
    /\ Cardinality(call.result.db.items) = max_items
    /\ PyStr(CodeOf(max_items + 1)) \notin {r.item_code : r \in call.result.db.items}

\* The test-mode cutoff of callback (line 154) has called stop() for the
\* current delivery, and stop() ran to its end.
CutoffFired ==
    /\ "stop" \in Range(delivery.stages)
    /\ "completed" \in Range(stops)

\* C30: when the cutoff calls stop(), the one acknowledgement of the message
\* that reached the limit has been sent, over the open channel; and from then
\* on no further message is handed to callback, none is acknowledged or
\* negatively acknowledged, none is dead-lettered and none is counted.
C30_CutoffAfterAck ==
    [][/\ ("stop" \in Range(delivery'.stages) /\ "stop" \notin Range(delivery.stages)) =>
              /\ pc = "check_limit"
              /\ Len(delivery.acks) = 1
              /\ delivery.stages[Len(delivery.stages)] = "acknowledge"
              /\ delivery'.acks = delivery.acks
       /\ CutoffFired =>
              /\ delivered' = delivered
              /\ delivery'.acks = delivery.acks
              /\ dlq_queue' = dlq_queue
              /\ messages_processed' = messages_processed
              /\ messages_successful' = messages_successful
              /\ messages_failed' = messages_failed]_vars

\* The cutoff fired after the first of the messages, and the consumer has
\* returned from start_consuming: the other message was never handed over.
C30_Witness ==
    /\ CutoffFired
    /\ pc = "exited"
    /\ delivered = 1
    /\ delivered < MaxDeliveries
    /\ messages_processed = 1

\* C31: once normalize_message and enrich_message have run on a message, the
\* envelope in hand is still the envelope parsed from the body, and it is
\* the envelope every dead letter of the delivery carries.
C31_EnvelopeUnmodified ==
    "enrich" \in Range(delivery.stages) =>
        /\ delivery.message = json_loads(Bodies[delivery.body].json)
        /\ \A i \in 1..Len(delivery.dead_letters) :
               delivery.dead_letters[i].original_message
                   = json_loads(Bodies[delivery.body].json)

\* A record of no known type, which carries the envelope's own data and
\* metadata, was enriched and then dead-lettered.
C31_Witness ==
    /\ "enrich" \in Range(delivery.stages)
    /\ delivery.enriched.type = "generic_data"
    /\ delivery.enriched.data = delivery.message.v["data"]
    /\ Len(delivery.dead_letters) = 1

\* The English entries all of whose patterns are patterns of the Hebrew
\* dictionary.
ShadowedBrands ==
    {english_brands[i].brand : i \in {k \in 1..Len(english_brands) :
        \A j \in 1..Len(english_brands[k].patterns) :
            lower(english_brands[k].patterns[j]) \in PatternsOf(hebrew_brands)}}

\* The combined text of the call's item holds a pattern of a shadowed entry.
HoldsShadowedPattern ==
    LET item_name == LowerText(call.args, "ItemName", "item_name").v
        manufacturer == LowerText(call.args, "ManufacturerName", "item_manufacturer").v
        description ==
            LowerText(call.args, "ManufacturerItemDescription", "item_description").v
        combined_text == strip(item_name \o " " \o manufacturer \o " " \o description)
    IN  \E i \in 1..Len(english_brands) :
            /\ english_brands[i].brand \in ShadowedBrands
            /\ \E j \in 1..Len(english_brands[i].patterns) :
                   In(lower(english_brands[i].patterns[j]), combined_text)

\* C32: the Hebrew dictionary holds every pattern of the English entries
\* Coca-Cola, Pepsi, Nestle, Sprite and Fanta; for every input
\* extract_brand_with_rules returns none of those five brands, and returns
\* method 'rule_based_english' only with one of the other English brands.
C32_ShadowedEnglishEntries ==
    /\ ShadowedBrands = {"Coca-Cola", "Pepsi", "Nestle", "Sprite", "Fanta"}
    /\ (call.fn = "extract_brand_with_rules" /\ ~IsRaise(call.result)) =>
           /\ call.result.brand \notin {PyStr(b) : b \in ShadowedBrands}
           /\ call.result.extraction_method = PyStr("rule_based_english") =>
                  call.result.brand \in
                      {PyStr(english_brands[i].brand) : i \in 1..Len(english_brands)}
                      \ {PyStr(b) : b \in ShadowedBrands}

\* C32, amended: the five entries are shadowed; a text holding one of their
\* patterns is resolved by the Hebrew stage; neither dictionary stage
\* returns one of the five brands, and 'rule_based_english' comes only with
\* one of the other English brands.  One of the five names is returned only
\* by the manufacturer stage, for a manufacturer that spells it with
\* punctuation inside.
C32_ShadowedInDictionaryStages ==
    /\ ShadowedBrands = {"Coca-Cola", "Pepsi", "Nestle", "Sprite", "Fanta"}
    /\ (call.fn = "extract_brand_with_rules" /\ ~IsRaise(call.result)) =>
           /\ (HoldsShadowedPattern /\ call.result.extraction_method # PyStr("rule_based_no_data"))
                  => call.result.extraction_method = PyStr("rule_based_hebrew")
           /\ call.result.extraction_method = PyStr("rule_based_hebrew") =>
                  call.result.brand \in
                      {PyStr(hebrew_brands[i].brand) : i \in 1..Len(hebrew_brands)}
           /\ call.result.extraction_method = PyStr("rule_based_english") =>
                  call.result.brand \in
                      {PyStr(english_brands[i].brand) : i \in 1..Len(english_brands)}
                      \ {PyStr(b) : b \in ShadowedBrands}
           /\ call.result.brand \in {PyStr(b) : b \in ShadowedBrands} =>
                  /\ call.result.extraction_method = PyStr("rule_based_manufacturer")
                  /\ ~HoldsShadowedPattern

\* An item named by a pattern of the English entry Pepsi was resolved by the
\* Hebrew stage.
C32_Witness ==
    /\ call.fn = "extract_brand_with_rules"
    /\ call.args = [ItemName |-> PyStr("pepsi 330")]
    /\ call.result.brand = PyStr("פפסי")
    /\ call.result.extraction_method = PyStr("rule_based_hebrew")
====
